---- MODULE Spec2Model ----
(***************************************************************************)
(* State-machine model of the JungleSpace3D audio engine (AudioEngine:     *)
(* voice allocator, release-teardown timers, output graph, beat            *)
(* sequencer) as the application drives it.  Each action is one public     *)
(* method of the engine or one scheduled callback (setTimeout teardown,    *)
(* setInterval tick).  Frequencies are in hundredths of a hertz, gains and *)
(* velocities in hundredths, so that all values are integers.              *)
(***************************************************************************)
EXTENDS Bags, FiniteSets, Integers, Sequences, TLC

\* ------------------------------------------------------------------ bounds
MaxVoices == 3
MaxPending == 2
MaxGraphs == 2
MaxStep == 17
MaxTimers == 3
MaxRequests == 3
MaxIds == 3
MaxLoopStep == 1
MaxLoopIds == 2
MaxLoopPending == 1
MaxCapIds == 154
MaxPresetVoices == 2
MaxPresetPending == 1
MaxSceneIds == 2
MaxPanelStep == 2
MaxSamples == 3
SubSteps == 4

\* ------------------------------------------------------- program constants
DNB == "Drum & Bass"
JUNGLE == "Jungle"
BREAKCORE == "Breakcore"
DrumStyle == {DNB, JUNGLE, BREAKCORE}

CLASSIC == "Classic Amen"
APACHE == "Apache"
THINK == "Think"
HOTPANTS == "Hot Pants"
SOUL_PRIDE == "Soul Pride"
ASSEMBLE == "Assemble"
THE_WORM == "The Worm"
AmenType == {CLASSIC, APACHE, THINK, HOTPANTS, SOUL_PRIDE, ASSEMBLE, THE_WORM}

STELLAR_WINDS == "Stellar Winds"
GRAVITY_WELL == "Gravity Well"
AURORA_AMBIENT == "Aurora Ambient"
VOID_TEXTURE == "Void Texture"
CELESTIAL_PAD == "Celestial Pad"
JUNGLE_ATMOS == "Jungle Atmos"
DREAM_STAB == "Dream Stab"
SUB_RESONANCE == "Sub Resonance"
SoundPreset ==
  {STELLAR_WINDS, GRAVITY_WELL, AURORA_AMBIENT, VOID_TEXTURE,
   CELESTIAL_PAD, JUNGLE_ATMOS, DREAM_STAB, SUB_RESONANCE}

\* The frequency palette, in hundredths of a hertz.
baseFreqs ==
  << 6541, 7342, 8241, 9800, 11000, 13081, 14683, 16481, 19600, 22000,
     26163, 29366, 32963, 39200, 44000, 52325, 58733, 65925, 78399, 88000 >>

\* The key identifiers generateKeyMap binds, in the order of its string.
keys ==
  << "KeyQ", "KeyW", "KeyE", "KeyR", "KeyT", "KeyY", "KeyU", "KeyI", "KeyO",
     "KeyP", "KeyA", "KeyS", "KeyD", "KeyF", "KeyG", "KeyH", "KeyJ", "KeyK",
     "KeyL", "KeyZ", "KeyX", "KeyC", "KeyV", "KeyB", "KeyN", "KeyM" >>

GEMINI == "Gemini AI"
BROWSER == "Web Speech (System)"
YANDEX == "Yandex Alice"
GIGACHAT == "GigaChat"
OPENAI == "OpenAI TTS"
TtsProvider == {GEMINI, BROWSER, YANDEX, GIGACHAT, OPENAI}

DefaultFreq == 26163
Cooldown == 4000
ShapeTail == 150
CharTail == 100
FragmentTail == 10
DefaultGain == 100
SampleScale == 32768
StepsPerCycle == 16

\* ------------------------------------------------------------ input sets
\* Key codes the keyboard handlers pass to playNote / stopNote.
KeyCodes == {"KeyQ", "KeyX"}

\* Outcomes of the random shuffle in generateKeyMap: permutations of the
\* palette positions (identity, reversal).
Shuffles ==
  { [i \in 1..Len(baseFreqs) |-> i],
    [i \in 1..Len(baseFreqs) |-> Len(baseFreqs) + 1 - i] }

\* Arguments of setPreset.
PresetInputs == {STELLAR_WINDS, CELESTIAL_PAD}

\* Arguments of setVolumes (synth, beat, voice), in hundredths.
VolumeInputs == { <<60, 40, 80>> }

\* Tempo arguments of startBeats.
Bpms == {120, 174}

\* Outcomes of the random draws of handleHyper: tempo, style, variant, preset.
HyperDraws ==
  { [bpm |-> 174, style |-> DNB, amen |-> CLASSIC, preset |-> STELLAR_WINDS],
    [bpm |-> 120, style |-> JUNGLE, amen |-> APACHE, preset |-> GRAVITY_WELL] }

\* Values set from the control panel: a volume slider and a preset button.
PanelInputs ==
  { [field |-> "synthVolume", value |-> 90],
    [field |-> "synthVolume", value |-> 60],
    [field |-> "soundPreset", value |-> GRAVITY_WELL] }

\* Keyboard events of a session at the panel: the two tempo nudges.
PanelKeyEvents ==
  { [key |-> "ArrowUp", code |-> "ArrowUp", repeat |-> FALSE],
    [key |-> "ArrowDown", code |-> "ArrowDown", repeat |-> FALSE] }

\* The voice lists window.speechSynthesis reports: none loaded yet, and two.
VoiceLists == { << >>, << "Milena", "Yuri" >> }

\* The voice list of the cooldown specification: the voices once loaded.
LoadedVoiceLists == { << "Milena", "Yuri" >> }

\* The voice names handed to speakWebSpeech: none, a system voice, a cloud
\* voice name that no system voice has.
VoiceNames == {"", "Milena", "Zephyr"}

\* The defaults of speakWebSpeech for pitch and rate, 1.0, in hundredths.
DefaultPitch == 100
DefaultRate == 100

\* Phrases handed to the speech router.
Texts == {"phrase a", "phrase b"}

\* How a cloud speech request ends: the request rejects (network, quota), it
\* resolves without an audio part, atob throws on the payload, the payload has
\* an odd byte count (new Int16Array throws), or it decodes.
CloudOutcomes == {"rejected", "noAudio", "badBase64", "oddLength", "audio"}

\* Responses of the text-generation call of generatePhilosophy: it throws, or
\* it returns a text, given here by its lines.
PoolResponses ==
  { [ok |-> FALSE, lines |-> << >>],
    [ok |-> TRUE, lines |-> << >>],
    [ok |-> TRUE, lines |-> << "phrase a", "", "phrase b", " " >>] }

\* Lines whose trim() is empty.
BlankLines == {"", " "}

\* Keyboard events: a letter key, its auto-repeat, and a key that is no letter.
KeyEvents ==
  { [key |-> "q", code |-> "KeyQ", repeat |-> FALSE],
    [key |-> "q", code |-> "KeyQ", repeat |-> TRUE],
    [key |-> "1", code |-> "Digit1", repeat |-> FALSE] }

\* Single characters the test /[a-zA-Z...]/ of handleKeyDown accepts.
Letters == {"q", "Q", "x", "X"}

\* Sample values a cloud voice sends, in units of 1 / (SampleScale * SubSteps):
\* -1.0, just below -0.5, two values between quantization steps, 0 and 1.0.
FullScale == SampleScale * SubSteps
PcmSamples == {0 - FullScale, 0 - (FullScale \div 2) - 1, 0 - 3, 0, 2, FullScale}

\* Sample sequences of a response.
PcmInputs == UNION {[1..n -> PcmSamples] : n \in 1..MaxSamples}

\* Payloads that are no 16-bit audio, as base64 sextets: a lone sextet (no
\* valid base64), one byte, three bytes.
RawPayloads == { << 1 >>, << 0, 16 >>, << 63, 63, 63, 63 >> }

\* Outcomes of types[Math.floor(Math.random() * types.length)] of a shape.
ShapeTypes == {"box"}

\* Shape types of the sessions of the disposing Visualizer: a type drawn with
\* a shared geometry and the type drawn with a buffer geometry of its own.
SceneShapeTypes == {"box", "line"}

\* Outcomes of lifeTime: 12000 + Math.random() * 30000 of a shape.
ShapeLifeTimes == {12000}

\* Outcomes of lifeTime: 30000 + Math.random() * 10000 of a fragment.
FragmentLifeTimes == {30000}

\* The longest lifetime of a fragment in whole milliseconds, for the cap
\* specification.
CapFragmentLifeTimes == {39999}

\* Outcomes of Math.random() in the choice of a phrase, in hundredths.
Picks == {0, 99}

\* The instants, in milliseconds, at which handlers and callbacks run.
Instants == {5000, 9000, 9001, 11000, 17000}

\* The instants of the cap specification: twelve instants one millisecond
\* more than the cooldown apart.
CapInstants ==
  { 5000, 9001, 13002, 17003, 21004, 25005, 29006, 33007, 37008, 41009, 45010, 49011 }

\* The response of the text-generation call in the cap specification.
CapResponses == { [ok |-> FALSE, lines |-> << >>] }

\* The instants of the cooldown specification: a cooldown exactly, one
\* millisecond more, and a later one.
CooldownInstants == {5000, 9000, 9001, 13001}

\* The providers chosen in the speech panel.
ProviderInputs == {GEMINI, BROWSER}

\* The instants of the event-loop specification: the load and one instant
\* past the cooldown.
LoopInstants == {5000, 9001}

\* The responses of the text-generation call in the event-loop specification.
LoopResponses == { [ok |-> TRUE, lines |-> << "phrase a", "phrase b" >>] }

\* Outcomes of a cloud request in the event-loop specification.
LoopOutcomes == {"rejected", "audio"}

\* Outcomes of Math.random() in the event-loop specification, in hundredths.
LoopPicks == {0}

\* Key events of the event-loop specification.
LoopKeyEvents == { [key |-> "q", code |-> "KeyQ", repeat |-> FALSE] }

\* Values of Date.now() when the page loads, in milliseconds.
LoadTimes == {5000}

\* Outcomes of the eight Math.random() calls of one breakcore step, in call
\* order and in hundredths: every trigger is both taken and skipped.
RandomDraws ==
  { << 10, 10, 10, 10, 10, 10, 10, 10 >>,
    << 90, 90, 90, 90, 90, 90, 90, 90 >>,
    << 90, 10, 90, 10, 50, 10, 10, 90 >>,
    << 10, 90, 10, 90, 10, 90, 90, 10 >> }

VARIABLES
  ctx,                \* TRUE once the AudioContext exists
  graph,              \* the output graph: [id, synth, beat, tts], id 0 = none
  keyFreqMap,         \* key code -> frequency
  currentPreset,
  voices,             \* every synthesis graph ever built, by creation order
  activeOscillators,  \* key code -> index into voices
  pending,            \* bag of scheduled release-teardown callbacks
  beatTimer,          \* id of the interval held by the engine, 0 = null
  intervals,          \* armed setInterval callbacks with their closures
  timerIds,           \* number of interval ids handed out so far
  currentStep,
  released,           \* history: voices whose key was released while sounding
  lastTick,           \* history: the latest pattern evaluation of the run
  runTicks,           \* history: pattern evaluations since the last startBeats
  lastOp,             \* history: the latest operation or callback
  requests,           \* speakCloud calls suspended at their await
  requestIds,         \* number of speakCloud calls that reached the request
  ttsSources,         \* texts whose decoded audio was started on the voice bus
  speechQueue,        \* utterances queued at window.speechSynthesis
  uncaught,           \* texts whose speakCloud promise rejected
  lastSettle,         \* history: the latest settled request and its outcome
  decoding,           \* speakCloud calls suspended at await decodeAudioData
  speechApi,          \* TRUE when the host has window.speechSynthesis
  isStarted,          \* App state
  now,                \* Date.now(), in milliseconds
  shapes,             \* App state: live shapes, oldest first
  flyingChars,        \* App state: live flying characters, oldest first
  fragments,          \* App state: live text fragments, oldest first
  lastKeyTime,        \* App ref: time of the latest fragment spawn
  philosophyPool,     \* App ref: the phrases fragments are drawn from
  poolRequest,        \* "pending" while generatePhilosophy is in flight, then
                      \* "done", or "failed" when its catch block has run
  settings,           \* App state: the settings addShape and the effect read
  effectDue,          \* TRUE while the settings effect has to run
  ids,                \* number of entity ids drawn so far
  meshes,             \* Visualizer: id -> userData of the shape meshes
  textMeshes,         \* Visualizer: id -> userData of the fragment meshes
  charMeshes,         \* Visualizer: id -> userData of the character meshes
  stateRef,           \* disposing Visualizer: its mesh maps and the resources
                      \* it has disposed
  pcm,                \* the audio payload of a cloud response and its decoding
  systemVoices,       \* App state: the voice names fetchVoices stored
  speechVoices,       \* window.speechSynthesis.getVoices(), by name
  propsStarted,       \* Visualizer: propsRef.current.isStarted
  spawns,             \* history: every fragment spawn, with the speech call made
  swept               \* history: entities a sweep pass has removed

engineVars ==
  << ctx, graph, keyFreqMap, currentPreset, voices, activeOscillators,
     pending, beatTimer, intervals, timerIds, currentStep >>

histVars == << released, lastTick, runTicks, lastOp >>

speechVars ==
  << requests, requestIds, ttsSources, speechQueue, uncaught, lastSettle, decoding,
     speechApi >>

appVars ==
  << isStarted, now, shapes, flyingChars, fragments, lastKeyTime, philosophyPool,
     poolRequest, settings, effectDue, ids, meshes, textMeshes, charMeshes,
     stateRef, pcm, systemVoices, speechVoices,
     propsStarted, spawns, swept >>

vars ==
  << ctx, graph, keyFreqMap, currentPreset, voices, activeOscillators,
     pending, beatTimer, intervals, timerIds, currentStep,
     released, lastTick, runTicks, lastOp,
     requests, requestIds, ttsSources, speechQueue, uncaught, lastSettle,
     decoding, speechApi,
     isStarted, now, shapes, flyingChars, fragments, lastKeyTime, philosophyPool,
     poolRequest, settings, effectDue, ids, meshes, textMeshes, charMeshes,
     stateRef, pcm, systemVoices, speechVoices,
     propsStarted, spawns, swept >>

NoSettle == [id |-> 0, text |-> "", outcome |-> ""]

\* The settings App starts with (the fields the handlers below read); volumes,
\* pitch and rate in hundredths, charLifetime in milliseconds.
DefaultSettings ==
  [ bpm |-> 174, synthVolume |-> 60, beatVolume |-> 40, voiceVolume |-> 80,
    drumStyle |-> DNB, amenType |-> CLASSIC, soundPreset |-> STELLAR_WINDS,
    ttsEnabled |-> FALSE, ttsProvider |-> GEMINI, selectedVoice |-> "Zephyr",
    charLifetime |-> 6000, ttsPitch |-> 100, ttsRate |-> 100 ]

NoGraph == [id |-> 0, synth |-> 0, beat |-> 0, tts |-> 0]
NoTick == [n |-> 0 - 1, step |-> 0 - 1, style |-> "", amen |-> "", hits |-> << >>]
EmptyMap == [k \in {} |-> 0]
NoPcm == [samples |-> << >>, data |-> << >>, buffer |-> << >>, stage |-> "none"]
NoScene ==
  [meshes |-> EmptyMap, textMeshes |-> EmptyMap, disposed |-> {},
   mounted |-> TRUE, looping |-> TRUE, frameRan |-> FALSE]

Op(name, key) == [op |-> name, key |-> key, rep |-> (lastOp.op = name /\ lastOp.key = key)]

\* ------------------------------------------------------- helper operators
MapSet(m, k, v) == [x \in (DOMAIN m) \cup {k} |-> IF x = k THEN v ELSE m[x]]
MapDelete(m, k) == [x \in (DOMAIN m) \ {k} |-> m[x]]

\* The sounding voices (generators started and never stopped) built for key k.
Sounding(k) == {v \in 1..Len(voices) : voices[v].key = k /\ voices[v].running}

KeyIndex(k) == CHOOSE i \in 1..Len(keys) : keys[i] = k
KeySet == {keys[i] : i \in 1..Len(keys)}

\* ------------------------------------------------------------ output graph
\* setupAudioGraph: without a context nothing happens; otherwise four fresh
\* gain nodes (gain 1.0 each) replace the previous ones.
setupAudioGraph(c, g) ==
  IF ~c THEN g
  ELSE [id |-> g.id + 1, synth |-> DefaultGain, beat |-> DefaultGain, tts |-> DefaultGain]

\* generateKeyMap: the i-th key (from 0) gets shuffledFreqs[i % length].
generateKeyMap(shuffle) ==
  [k \in KeySet |->
     baseFreqs[shuffle[((KeyIndex(k) - 1) % Len(baseFreqs)) + 1]]]

\* ------------------------------------------------------------ preset bank
\* The nodes playNote pushes for a preset, in order: "osc" is an
\* OscillatorNode, "source" an AudioBufferSourceNode.
PresetNodes(preset) ==
  CASE preset = STELLAR_WINDS -> << "source", "filter" >>
    [] preset = GRAVITY_WELL -> << "osc" >>
    [] preset = AURORA_AMBIENT -> << "osc", "osc", "gain" >>
    [] preset = VOID_TEXTURE -> << "source", "filter" >>
    [] preset = CELESTIAL_PAD -> << "osc", "osc", "osc", "osc" >>
    [] preset = JUNGLE_ATMOS -> << "source", "filter" >>
    [] preset = DREAM_STAB -> << "osc", "osc", "filter" >>
    [] preset = SUB_RESONANCE -> << "osc", "shaper" >>
    [] OTHER -> << >>

\* Attack time of a preset, in hundredths of a second.
PresetAttack(preset) ==
  CASE preset = STELLAR_WINDS -> 180
    [] preset = GRAVITY_WELL -> 15
    [] preset = AURORA_AMBIENT -> 200
    [] preset = VOID_TEXTURE -> 100
    [] preset = CELESTIAL_PAD -> 150
    [] preset = JUNGLE_ATMOS -> 250
    [] preset = DREAM_STAB -> 5
    [] preset = SUB_RESONANCE -> 20
    [] OTHER -> 50

IsGenerator(kind) == kind \in {"osc", "source"}

\* ---------------------------------------------------------------- actions
\* The state after construction on a host with or without the Web Speech
\* API.
HostInit(api) ==
  /\ speechApi = api
  /\ decoding = {}
  /\ ctx = FALSE
  /\ graph = NoGraph
  /\ keyFreqMap = EmptyMap
  /\ currentPreset = STELLAR_WINDS
  /\ voices = << >>
  /\ activeOscillators = EmptyMap
  /\ pending = EmptyBag
  /\ beatTimer = 0
  /\ intervals = {}
  /\ timerIds = 0
  /\ currentStep = 0
  /\ released = {}
  /\ lastTick = NoTick
  /\ runTicks = 0
  /\ lastOp = [op |-> "new", key |-> "", rep |-> FALSE]
  /\ requests = {}
  /\ requestIds = 0
  /\ ttsSources = {}
  /\ speechQueue = << >>
  /\ uncaught = {}
  /\ lastSettle = NoSettle
  /\ isStarted = FALSE
  /\ now \in LoadTimes
  /\ shapes = << >>
  /\ flyingChars = << >>
  /\ fragments = << >>
  /\ lastKeyTime = 0
  /\ philosophyPool = << >>
  /\ poolRequest = "pending"
  /\ settings = DefaultSettings
  /\ effectDue = FALSE
  /\ ids = 0
  /\ meshes = EmptyMap
  /\ textMeshes = EmptyMap
  /\ charMeshes = EmptyMap
  /\ stateRef = NoScene
  /\ pcm = NoPcm
  /\ systemVoices = << >>
  /\ speechVoices = << >>
  /\ propsStarted = FALSE
  /\ spawns = << >>
  /\ swept = {}

\* A browser with the Web Speech API.
Init == HostInit(TRUE)

\* Any host: with the Web Speech API or without it.
SpeechInit == \E api \in BOOLEAN : HostInit(api)

\* init(): builds the context, the output graph and the key map, once.
init ==
  /\ IF ctx
       THEN UNCHANGED << ctx, graph, keyFreqMap >>
       ELSE /\ ctx' = TRUE
            /\ graph' = setupAudioGraph(TRUE, graph)
            /\ \E shuffle \in Shuffles : keyFreqMap' = generateKeyMap(shuffle)
  /\ lastOp' = Op("init", "")
  /\ UNCHANGED << currentPreset, voices, activeOscillators, pending, beatTimer,
                  intervals, timerIds, currentStep, released, lastTick, runTicks >>

\* Faulty variant: playNote without the guard against a key already sounding.
hasVoiceNever(keyCode) == FALSE

\* The guard of playNote that makes a repeated press a no-op.
hasVoice(keyCode) == keyCode \in DOMAIN activeOscillators

\* The voice playNote builds for keyCode from the current preset.
newVoice(keyCode) ==
  [ key |-> keyCode,
    freq |-> IF keyCode \in DOMAIN keyFreqMap THEN keyFreqMap[keyCode] ELSE DefaultFreq,
    preset |-> currentPreset,
    nodes |-> PresetNodes(currentPreset),
    attack |-> PresetAttack(currentPreset),
    bus |-> graph.id,
    env |-> "attack",
    running |-> \E i \in 1..Len(PresetNodes(currentPreset)) :
                  IsGenerator(PresetNodes(currentPreset)[i]) ]

playNote(keyCode) ==
  /\ IF ~ctx \/ graph.id = 0 \/ hasVoice(keyCode)
       THEN UNCHANGED << voices, activeOscillators >>
       ELSE /\ Len(voices) < MaxVoices
            /\ voices' = Append(voices, newVoice(keyCode))
            /\ activeOscillators' = MapSet(activeOscillators, keyCode, Len(voices) + 1)
  /\ lastOp' = Op("playNote", keyCode)
  /\ UNCHANGED << ctx, graph, keyFreqMap, currentPreset, pending, beatTimer,
                  intervals, timerIds, currentStep, released, lastTick, runTicks >>

\* The callback stopNote hands to setTimeout: it closes over the key code
\* and over the node list of the voice that was registered at the call.
teardownFor(keyCode) == [key |-> keyCode, voice |-> activeOscillators[keyCode]]

stopNote(keyCode) ==
  /\ IF keyCode \in DOMAIN activeOscillators /\ ctx
       THEN /\ BagCardinality(pending) < MaxPending
            /\ voices' = [voices EXCEPT ![activeOscillators[keyCode]].env = "release"]
            /\ pending' = pending (+) SetToBag({teardownFor(keyCode)})
       ELSE UNCHANGED << voices, pending >>
  /\ released' = released \cup Sounding(keyCode)
  /\ lastOp' = Op("stopNote", keyCode)
  /\ UNCHANGED << ctx, graph, keyFreqMap, currentPreset, activeOscillators,
                  beatTimer, intervals, timerIds, currentStep, lastTick, runTicks >>

\* The entry the teardown callback deletes from activeOscillators.
teardownDeletes(t) == t.key

\* A release-teardown callback fires: it stops and disconnects the nodes it
\* closed over and deletes the entry of its key.
Teardown(t) ==
  /\ BagIn(t, pending)
  /\ pending' = pending (-) SetToBag({t})
  /\ voices' = [voices EXCEPT ![t.voice].running = FALSE]
  /\ activeOscillators' = MapDelete(activeOscillators, teardownDeletes(t))
  /\ lastOp' = Op("teardown", t.key)
  /\ UNCHANGED << ctx, graph, keyFreqMap, currentPreset, beatTimer, intervals,
                  timerIds, currentStep, released, lastTick, runTicks >>

\* ---------------------------------------------------------- beat sequencer
clearInterval(ivs, id) == {iv \in ivs : iv.id # id}

\* Faulty variant: stopBeats forgets the handle without calling clearInterval.
intervalsAfterStopLeak == intervals

\* The armed intervals once stopBeats has run.
intervalsAfterStop ==
  IF beatTimer # 0 THEN clearInterval(intervals, beatTimer) ELSE intervals

\* stopBeats(): clears the held interval, if any, and forgets it.
stopBeats ==
  /\ intervals' = intervalsAfterStop
  /\ beatTimer' = 0
  /\ lastOp' = Op("stopBeats", "")
  /\ UNCHANGED << ctx, graph, keyFreqMap, currentPreset, voices, activeOscillators,
                  pending, timerIds, currentStep, released, lastTick, runTicks >>

\* Tick period in microseconds: (60 / bpm) / 4 * 1000 milliseconds.
tickPeriod(bpm) == 15000000 \div bpm

\* Faulty variant: startBeats does not reset the step index.
stepAfterStartKept == currentStep

\* The step index startBeats leaves behind.
stepAfterStart == 0

\* startBeats(bpm, style, amen): stops the held run, resets the step and arms
\* a recurring tick whose closure holds style and amen.
startBeats(bpm, style, amen) ==
  /\ timerIds < MaxTimers
  /\ timerIds' = timerIds + 1
  /\ intervals' = intervalsAfterStop \cup
       {[id |-> timerIds + 1, style |-> style, amen |-> amen, period |-> tickPeriod(bpm)]}
  /\ beatTimer' = timerIds + 1
  /\ currentStep' = stepAfterStart
  /\ runTicks' = 0
  /\ lastTick' = NoTick
  /\ lastOp' = Op("startBeats", "")
  /\ UNCHANGED << ctx, graph, keyFreqMap, currentPreset, voices, activeOscillators,
                  pending, released >>

\* playDrum(type, time, volume = 1.0, basePitch = 100) as a trigger record.
Hit(type, volume, basePitch) == [type |-> type, vol |-> volume, pitch |-> basePitch]
When(cond, hit) == IF cond THEN << hit >> ELSE << >>

\* Faulty variant: the second kick of the drum & bass pattern on step 8.
PatternDNBShifted(step) ==
  When(step = 0 \/ step = 8, Hit("kick", 100, 55)) \o
  When(step = 4 \/ step = 12, Hit("snare", 80, 180)) \o
  When(step % 2 = 0, Hit("hat", 15, 100))

\* The triggers of one step of the drum & bass pattern.
PatternDNB(step) ==
  When(step = 0 \/ step = 10, Hit("kick", 100, 55)) \o
  When(step = 4 \/ step = 12, Hit("snare", 80, 180)) \o
  When(step % 2 = 0, Hit("hat", 15, 100))

\* The triggers of one step of the jungle pattern of a variant.
PatternJUNGLE(amen, step) ==
  CASE amen = CLASSIC ->
         When(step = 0 \/ step = 7 \/ step = 10, Hit("kick", 100, 70)) \o
         When(step = 4 \/ step = 12, Hit("snare", 90, 250)) \o
         When(step \in {6, 13, 14, 15}, Hit("snare", 35, 280))
    [] amen = APACHE ->
         When(step = 0 \/ step = 2 \/ step = 8 \/ step = 10, Hit("kick", 80, 65)) \o
         When(step = 4 \/ step = 12, Hit("snare", 100, 210)) \o
         When(step % 2 # 0, Hit("hat", 20, 8000))
    [] amen = THINK ->
         When(step = 0 \/ step = 10, Hit("kick", 90, 80)) \o
         When(step = 4 \/ step = 12, Hit("snare", 70, 350)) \o
         When(step % 2 = 0, Hit("snare", 20, 400))
    [] amen = HOTPANTS ->
         When(step = 0 \/ step = 8, Hit("kick", 100, 50)) \o
         When(step = 4 \/ step = 12, Hit("snare", 80, 200)) \o
         When(step % 1 = 0, Hit("hat", 10, 14000))
    [] amen = SOUL_PRIDE ->
         When(step = 0 \/ step = 7 \/ step = 10, Hit("kick", 100, 60)) \o
         When(step = 4 \/ step = 12, Hit("snare", 90, 220)) \o
         When(step % 2 = 0, Hit("hat", 20, 10000))
    [] amen = ASSEMBLE ->
         When(step = 0 \/ step = 3 \/ step = 8 \/ step = 11, Hit("kick", 100, 50)) \o
         When(step = 4 \/ step = 12, Hit("snare", 90, 280)) \o
         When(step % 1 = 0, Hit("hat", 10, 12000))
    [] amen = THE_WORM ->
         When(step = 0 \/ step = 10, Hit("kick", 100, 55)) \o
         When(step = 4 \/ step = 11 \/ step = 12, Hit("snare", 80, 240)) \o
         When(step % 2 = 0 \/ step % 3 = 0, Hit("hat", 15, 15000))
    [] OTHER -> << >>

\* The triggers of one breakcore step, d being the eight Math.random() draws
\* of the step in call order (hundredths).
PatternBREAKCORE(d) ==
  When(d[1] > 60, Hit("kick", d[2], 40 + (d[3] * 80) \div 100)) \o
  When(d[4] > 40, Hit("snare", d[5], 150 + d[6] * 5)) \o
  When(d[7] > 20, Hit("hat", (d[8] * 30) \div 100, 100))

Pattern(style, amen, step, d) ==
  CASE style = DNB -> PatternDNB(step)
    [] style = JUNGLE -> PatternJUNGLE(amen, step)
    [] style = BREAKCORE -> PatternBREAKCORE(d)
    [] OTHER -> << >>

\* The step a tick evaluates.
tickStep == currentStep % StepsPerCycle

\* Faulty variant: a tick that does not advance the step index.
stepAfterTickStuck == currentStep

\* The step index a tick leaves behind.
stepAfterTick == currentStep + 1

\* One firing of an armed interval callback.
Tick(iv) ==
  /\ iv \in intervals
  /\ IF ~ctx \/ graph.id = 0
       THEN UNCHANGED << currentStep, lastTick, runTicks >>
       ELSE /\ currentStep < MaxStep
            /\ \E hits \in {Pattern(iv.style, iv.amen, tickStep, d) : d \in RandomDraws} :
                 lastTick' = [n |-> runTicks, step |-> tickStep, style |-> iv.style,
                              amen |-> iv.amen, hits |-> hits]
            /\ currentStep' = stepAfterTick
            /\ runTicks' = runTicks + 1
  /\ lastOp' = Op("tick", "")
  /\ UNCHANGED << ctx, graph, keyFreqMap, currentPreset, voices, activeOscillators,
                  pending, beatTimer, intervals, timerIds, released >>

\* ------------------------------------------------- clearAllNotes and mixer
RegisteredVoices == {activeOscillators[k] : k \in DOMAIN activeOscillators}

\* Faulty variant: clearAllNotes zeroes the gains but leaves the generators running.
voicesAfterClearGainOnly ==
  [v \in 1..Len(voices) |->
     IF v \in RegisteredVoices THEN [voices[v] EXCEPT !.env = "cut"] ELSE voices[v]]

\* The voices once clearAllNotes has walked activeOscillators: the gain of
\* every registered voice is set to 0 and its generators are stopped.
voicesAfterClear ==
  [v \in 1..Len(voices) |->
     IF v \in RegisteredVoices
       THEN [voices[v] EXCEPT !.env = "cut", !.running = FALSE]
       ELSE voices[v]]

\* The output graph once clearAllNotes has rebuilt it.
graphAfterClear == setupAudioGraph(ctx, graph)

clearAllNotes ==
  /\ IF ~ctx \/ graph.id = 0
       THEN UNCHANGED << voices, activeOscillators, graph, intervals, beatTimer >>
       ELSE /\ graph.id < MaxGraphs
            /\ voices' = voicesAfterClear
            /\ activeOscillators' = EmptyMap
            /\ graph' = graphAfterClear
            /\ intervals' = intervalsAfterStop
            /\ beatTimer' = 0
  /\ lastOp' = Op("clearAllNotes", "")
  /\ UNCHANGED << ctx, keyFreqMap, currentPreset, pending, timerIds, currentStep,
                  released, lastTick, runTicks >>

\* The public generateKeyMap(): a reshuffle of the palette over the keys.
generateKeyMapCall ==
  /\ \E shuffle \in Shuffles : keyFreqMap' = generateKeyMap(shuffle)
  /\ lastOp' = Op("generateKeyMap", "")
  /\ UNCHANGED << ctx, graph, currentPreset, voices, activeOscillators, pending,
                  beatTimer, intervals, timerIds, currentStep, released, lastTick,
                  runTicks >>

\* Faulty variant: setPreset also rebuilds the sounding voices from the new
\* preset.
setPresetRebuilding(preset) ==
  /\ currentPreset' = preset
  /\ voices' = [i \in 1..Len(voices) |->
                  IF voices[i].running
                    THEN [voices[i] EXCEPT !.preset = preset, !.nodes = PresetNodes(preset)]
                    ELSE voices[i]]
  /\ lastOp' = Op("setPreset", "")
  /\ UNCHANGED << ctx, graph, keyFreqMap, activeOscillators, pending,
                  beatTimer, intervals, timerIds, currentStep, released, lastTick,
                  runTicks >>

setPreset(preset) ==
  /\ currentPreset' = preset
  /\ lastOp' = Op("setPreset", "")
  /\ UNCHANGED << ctx, graph, keyFreqMap, voices, activeOscillators, pending,
                  beatTimer, intervals, timerIds, currentStep, released, lastTick,
                  runTicks >>

setVolumes(synth, beat, voice) ==
  /\ graph' = IF graph.id # 0 /\ ctx
                THEN [graph EXCEPT !.synth = synth, !.beat = beat, !.tts = voice]
                ELSE graph
  /\ lastOp' = Op("setVolumes", "")
  /\ UNCHANGED << ctx, keyFreqMap, currentPreset, voices, activeOscillators, pending,
                  beatTimer, intervals, timerIds, currentStep, released, lastTick,
                  runTicks >>

\* ------------------------------------------------------------ speech router
\* The utterance speakWebSpeech builds: the voice is set only when a name is
\* given and getVoices() has a voice of that name ("" is the default voice).
utterance(text, volume, voiceName, pitch, rate) ==
  [text |-> text, volume |-> volume, pitch |-> pitch, rate |-> rate,
   voice |-> IF voiceName # "" /\ \E i \in 1..Len(speechVoices) : speechVoices[i] = voiceName
               THEN voiceName ELSE ""]

\* speakWebSpeech: without window.speechSynthesis it returns at once;
\* otherwise cancel() empties the queue and speak() queues the utterance.
speakWebSpeech(text, volume, voiceName, pitch, rate) ==
  /\ speechQueue' = IF ~speechApi THEN speechQueue
                    ELSE << utterance(text, volume, voiceName, pitch, rate) >>
  /\ UNCHANGED << requests, requestIds, ttsSources, uncaught, lastSettle, decoding,
                  speechApi >>

\* speakCloud up to its first await: without a context or a voice bus it
\* returns at once, otherwise the request is in flight and the caller goes on.
speakCloud(text, provider, voiceName, volume) ==
  /\ IF ~ctx \/ graph.id = 0
       THEN UNCHANGED << requests, requestIds >>
       ELSE /\ requestIds < MaxRequests
            /\ requestIds' = requestIds + 1
            /\ requests' = requests \cup
                 {[id |-> requestIds + 1, text |-> text, volume |-> volume,
                   voice |-> IF voiceName = "" THEN "Zephyr" ELSE voiceName]}
  /\ UNCHANGED << ttsSources, speechQueue, uncaught, lastSettle, decoding, speechApi >>

\* Faulty variant: a request that is waited for synchronously keeps the
\* thread until it settles.
blockingAll(reqs) == reqs

\* The requests whose speakCloud call still occupies the thread: none, since
\* the call is suspended at its await and control is back in the event loop.
blocking(reqs) == {}

\* The event loop runs a handler or callback only while no call is running.
threadFree == blocking(requests) = {}

\* The outcomes that throw inside the try block of speakCloud.
Throws(outcome) == outcome \in {"rejected", "badBase64", "oddLength"}

\* The outcomes in which speakCloud reaches its second await: the payload
\* passed atob and the promise of decodeAudioData is awaited (it rejects
\* when new Int16Array throws on an odd byte count).
Decodes(outcome) == outcome \in {"oddLength", "audio"}

\* No continuation of speakCloud is waiting in the microtask queue: the
\* event loop runs the next task only then.
microtasksDone == decoding = {}

\* The speech queue once the catch block of speakCloud has run for r: the
\* block is empty, nothing is queued.
queueAfterCatch(r) == speechQueue

\* The rejections speakCloud passes on to its caller: the catch block
\* swallows every error.
uncaughtAfterCatch(r) == uncaught

\* speakCloud from its first await to its end or to its second await, run
\* when the request of r settles: a rejection and an atob error reach the
\* catch block, a response without audio ends the call, and a payload that
\* passed atob leaves the call suspended at await decodeAudioData.
Settle(r, outcome) ==
  /\ r \in requests
  /\ requests' = requests \ {r}
  /\ decoding' = IF Decodes(outcome)
                   THEN decoding \cup {[id |-> r.id, text |-> r.text, volume |-> r.volume,
                                          outcome |-> outcome]}
                   ELSE decoding
  /\ speechQueue' = IF Throws(outcome) /\ ~Decodes(outcome)
                      THEN queueAfterCatch(r) ELSE speechQueue
  /\ uncaught' = IF Throws(outcome) /\ ~Decodes(outcome)
                   THEN uncaughtAfterCatch(r) ELSE uncaught
  /\ lastSettle' = IF Decodes(outcome) THEN lastSettle
                     ELSE [id |-> r.id, text |-> r.text, outcome |-> outcome]
  /\ UNCHANGED << requestIds, ttsSources, speechApi >>

\* speakCloud after await decodeAudioData: the buffer source is created,
\* connected to the voice bus of that moment and started, or the rejection
\* of decodeAudioData reaches the catch block.
Resume(d) ==
  /\ d \in decoding
  /\ decoding' = decoding \ {d}
  /\ ttsSources' = IF d.outcome = "audio"
                     THEN ttsSources \cup {[id |-> d.id, text |-> d.text, bus |-> graph.id]}
                     ELSE ttsSources
  /\ speechQueue' = IF Throws(d.outcome) THEN queueAfterCatch(d) ELSE speechQueue
  /\ uncaught' = IF Throws(d.outcome) THEN uncaughtAfterCatch(d) ELSE uncaught
  /\ lastSettle' = [id |-> d.id, text |-> d.text, outcome |-> d.outcome]
  /\ UNCHANGED << requests, requestIds, speechApi >>

\* ------------------------------------------------------ speech payload
\* A base64 text is the sequence of its sextets; "=" padding is implied by
\* the length.  atob turns four sextets into three bytes, and a last group
\* of two or three sextets into one or two bytes; a last group of one
\* sextet is no valid base64 (atob throws).
sextetAt(b, i) == IF i <= Len(b) THEN b[i] ELSE 0
atobValid(b) == Len(b) % 4 # 1
atobLength(n) == (n \div 4) * 3 + (IF n % 4 = 0 THEN 0 ELSE (n % 4) - 1)
atob(b) ==
  [j \in 1..atobLength(Len(b)) |->
     LET g == (j - 1) \div 3
         v == sextetAt(b, 4 * g + 1) * 262144 + sextetAt(b, 4 * g + 2) * 4096
                + sextetAt(b, 4 * g + 3) * 64 + sextetAt(b, 4 * g + 4)
         pos == (j - 1) % 3
     IN (v \div (IF pos = 0 THEN 65536 ELSE IF pos = 1 THEN 256 ELSE 1)) % 256]

\* decodeBase64: the char codes of atob(base64), byte by byte.
decodeBase64(base64) ==
  LET binaryString == atob(base64) IN
  [i \in 1..Len(binaryString) |-> binaryString[i]]

\* Faulty variant: the byte pair read high byte first.
int16AtBigEndian(data, i) ==
  LET u == 256 * data[2 * i - 1] + data[2 * i] IN
  IF u >= 32768 THEN u - 65536 ELSE u

\* Element i (from 1) of new Int16Array(data.buffer): the byte pair read low
\* byte first, as a two's complement number.
int16At(data, i) ==
  LET u == data[2 * i - 1] + 256 * data[2 * i] IN
  IF u >= 32768 THEN u - 65536 ELSE u

\* new Int16Array(data.buffer) throws on an odd byte length.
int16Valid(data) == Len(data) % 2 = 0

\* decodeAudioData with one channel: frameCount = dataInt16.length, and
\* frame i is dataInt16[i] / 32768.0, given here by its numerator over
\* SampleScale.
decodeAudioData(data) == [i \in 1..(Len(data) \div 2) |-> int16At(data, i)]

\* The voice service, as the payload format describes it: a sample is
\* rounded to the nearest 16-bit step, limited to -32768..32767 and written
\* low byte first; the bytes are sent as base64.
quantize(u) ==
  LET q == (u + (SubSteps \div 2)) \div SubSteps IN
  IF q > SampleScale - 1 THEN SampleScale - 1
  ELSE IF q < 0 - SampleScale THEN 0 - SampleScale ELSE q
encodePcm(samples) ==
  [j \in 1..(2 * Len(samples)) |->
     LET w == quantize(samples[(j + 1) \div 2]) % 65536 IN
     IF j % 2 = 1 THEN w % 256 ELSE w \div 256]
byteAt(bytes, i) == IF i <= Len(bytes) THEN bytes[i] ELSE 0
btoa(bytes) ==
  [i \in 1..((Len(bytes) * 4 + 2) \div 3) |->
     LET g == (i - 1) \div 4
         v == byteAt(bytes, 3 * g + 1) * 65536 + byteAt(bytes, 3 * g + 2) * 256
                + byteAt(bytes, 3 * g + 3)
         pos == (i - 1) % 4
     IN (v \div (IF pos = 0 THEN 262144 ELSE IF pos = 1 THEN 4096
                  ELSE IF pos = 2 THEN 64 ELSE 1)) % 64]

\* A response arrives whose inlineData.data holds the given base64 text.
receive(samples, base64) ==
  /\ pcm' = [samples |-> samples, data |-> base64, buffer |-> << >>, stage |-> "received"]
  /\ lastOp' = Op("receive", "")
  /\ UNCHANGED << engineVars, released, lastTick, runTicks, speechVars,
                  isStarted, now, shapes, flyingChars, fragments, lastKeyTime,
                  philosophyPool, poolRequest, settings, effectDue, ids, meshes,
                  textMeshes, charMeshes, stateRef, systemVoices, speechVoices,
                  propsStarted, spawns, swept >>

\* speakCloud decodes the payload: decodeAudioData(decodeBase64(base64Audio)).
\* Either call may throw; the catch block of speakCloud swallows it.
decodePayload ==
  /\ pcm.stage = "received"
  /\ pcm' = IF atobValid(pcm.data) /\ int16Valid(decodeBase64(pcm.data))
              THEN [pcm EXCEPT !.stage = "decoded",
                               !.buffer = decodeAudioData(decodeBase64(pcm.data))]
              ELSE [pcm EXCEPT !.stage = "threw"]
  /\ lastOp' = Op("decode", "")
  /\ UNCHANGED << engineVars, released, lastTick, runTicks, speechVars,
                  isStarted, now, shapes, flyingChars, fragments, lastKeyTime,
                  philosophyPool, poolRequest, settings, effectDue, ids, meshes,
                  textMeshes, charMeshes, stateRef, systemVoices, speechVoices,
                  propsStarted, spawns, swept >>

\* ------------------------------------------------------ philosophy service
\* The built-in phrases generatePhilosophy returns from its catch block.
FallbackPhrases ==
  << "fallback 1", "fallback 2", "fallback 3", "fallback 4", "fallback 5",
     "fallback 6", "fallback 7", "fallback 8", "fallback 9", "fallback 10" >>

NotBlank(line) == line \notin BlankLines

\* Faulty variant: the catch block returns an empty list.
generatePhilosophyNoFallback(resp) ==
  IF resp.ok THEN SelectSeq(resp.lines, NotBlank) ELSE << >>

\* generatePhilosophy: the non-blank lines of the response, or the built-in
\* phrases when the call throws.
generatePhilosophy(resp) ==
  IF resp.ok THEN SelectSeq(resp.lines, NotBlank) ELSE FallbackPhrases

\* loadPool after its await: the result becomes the pool.
loadPool(resp) ==
  /\ poolRequest = "pending"
  /\ poolRequest' = IF resp.ok THEN "done" ELSE "failed"
  /\ philosophyPool' = generatePhilosophy(resp)
  /\ lastOp' = Op("loadPool", "")
  /\ UNCHANGED << engineVars, released, lastTick, runTicks, speechVars,
                  isStarted, now, shapes, flyingChars, fragments, lastKeyTime,
                  settings, effectDue, ids, meshes, textMeshes, charMeshes, stateRef, pcm,
                  systemVoices, speechVoices,
                  propsStarted, spawns, swept >>

\* ------------------------------------------------------------ App handlers
\* Faulty variant: slice(0, n), which keeps the first n entries.
FirstN(s, n) == IF Len(s) <= n THEN s ELSE SubSeq(s, 1, n)

\* prev.slice(-n): the last n entries.
LastN(s, n) == IF Len(s) <= n THEN s ELSE SubSeq(s, Len(s) - n + 1, Len(s))

IdsOf(coll) == {coll[i].id : i \in 1..Len(coll)}

\* Faulty variant: an entry whose age equals its lifetime is still kept.
AliveAtLimit(e, t) == t - e.createdAt <= e.lifeTime

\* The test the sweep keeps an entity by.
Alive(e, t) == t - e.createdAt < e.lifeTime

\* Faulty variant: the cooldown counts as passed at exactly 4000 ms.
cooldownPassedAtLimit(t) == t - lastKeyTime >= Cooldown

\* The cooldown test of addShape.
cooldownPassed(t) == t - lastKeyTime > Cooldown

\* The phrase addShape picks: pool[Math.floor(Math.random() * pool.length)].
pickPhrase(pick) == philosophyPool[((pick * Len(philosophyPool)) \div 100) + 1]

\* Faulty variant: a shape is added only when no note is sounding yet.
shapesAfterAddIfSilent(mainShape) ==
  IF activeOscillators # EmptyMap THEN shapes ELSE Append(LastN(shapes, ShapeTail), mainShape)

shapesAfterAdd(mainShape) == Append(LastN(shapes, ShapeTail), mainShape)
charsAfterAdd(newChar) == Append(LastN(flyingChars, CharTail), newChar)

\* Faulty variant: the insertion of a fragment keeps only the last eight.
fragmentsAfterAddShort(newFragment) == Append(LastN(fragments, 8), newFragment)

\* setFragments(prev => [...prev.slice(-10), newFragment]).
fragmentsAfterAdd(newFragment) ==
  Append(LastN(fragments, FragmentTail), newFragment)

\* char.toUpperCase() for the characters of the key events.
toUpperCase(c) ==
  CASE c = "q" -> "Q" [] c = "x" -> "X" [] OTHER -> c

\* The ids of the shape, the flying character and the fragment of a press:
\* three separate draws of Math.random().toString(36), taken to be fresh, so
\* the three differ from each other and from every earlier id.
shapeId == 3 * ids + 1
charId == 3 * ids + 2
fragmentId == 3 * ids + 3

\* addShape(keyCode, char): one shape and one flying character, and, once
\* the cooldown has passed and the pool has phrases, one fragment, which is
\* spoken when speech is enabled.
addShape(keyCode, char, type, shapeLife, fragLife, pick) ==
  LET mainShape == [id |-> shapeId, type |-> type, createdAt |-> now,
                    lifeTime |-> shapeLife]
      newChar == [id |-> charId, char |-> toUpperCase(char), createdAt |-> now,
                  lifeTime |-> settings.charLifetime]
  IN
  /\ ids' = ids + 1
  /\ shapes' = shapesAfterAdd(mainShape)
  /\ flyingChars' = charsAfterAdd(newChar)
  /\ IF cooldownPassed(now) /\ Len(philosophyPool) > 0
       THEN LET text == pickPhrase(pick)
                newFragment == [id |-> fragmentId, text |-> text, createdAt |-> now,
                                lifeTime |-> fragLife]
            IN
            /\ fragments' = fragmentsAfterAdd(newFragment)
            /\ lastKeyTime' = now
            /\ spawns' = Append(spawns,
                 [at |-> now, text |-> text,
                  spoke |-> IF ~settings.ttsEnabled THEN "none"
                            ELSE IF settings.ttsProvider = BROWSER THEN "system"
                            ELSE "cloud"])
            /\ IF settings.ttsEnabled
                 THEN IF settings.ttsProvider = BROWSER
                        THEN speakWebSpeech(text, settings.voiceVolume,
                                            settings.selectedVoice,
                                            settings.ttsPitch, settings.ttsRate)
                        ELSE speakCloud(text, settings.ttsProvider,
                                        settings.selectedVoice, settings.voiceVolume)
                 ELSE UNCHANGED speechVars
       ELSE UNCHANGED << fragments, lastKeyTime, spawns, speechVars >>
  /\ UNCHANGED << isStarted, now, philosophyPool, poolRequest, settings, effectDue,
                  meshes, textMeshes, charMeshes, stateRef, pcm,
                  systemVoices, speechVoices, propsStarted, swept >>

IsLetter(key) == key \in Letters

\* handleKeyDown: ignored until started; the arrows nudge the tempo; a
\* first press of a letter plays its note and adds its entities.
handleKeyDown(e, type, shapeLife, fragLife, pick) ==
  IF ~isStarted
    THEN /\ lastOp' = Op("keydown", e.code)
         /\ UNCHANGED << engineVars, released, lastTick, runTicks, speechVars, appVars >>
  ELSE IF e.key \in {"ArrowUp", "ArrowDown"}
    THEN /\ settings' = [settings EXCEPT !.bpm =
                            IF e.key = "ArrowUp"
                              THEN (IF settings.bpm + 2 < 240 THEN settings.bpm + 2 ELSE 240)
                              ELSE (IF settings.bpm - 2 > 40 THEN settings.bpm - 2 ELSE 40)]
         /\ effectDue' = (effectDue \/ settings'.bpm # settings.bpm)
         /\ lastOp' = Op("keydown", e.code)
         /\ UNCHANGED << engineVars, released, lastTick, runTicks, speechVars,
                         isStarted, now, shapes, flyingChars, fragments, lastKeyTime,
                         philosophyPool, poolRequest, ids, meshes, textMeshes,
                         charMeshes, stateRef, pcm,
                  systemVoices, speechVoices, propsStarted, spawns, swept >>
  ELSE IF e.repeat \/ ~IsLetter(e.key)
    THEN /\ lastOp' = Op("keydown", e.code)
         /\ UNCHANGED << engineVars, released, lastTick, runTicks, speechVars, appVars >>
  ELSE /\ playNote(e.code)
       /\ addShape(e.code, e.key, type, shapeLife, fragLife, pick)

\* handleKeyUp: releases the note of the key once started.
handleKeyUp(e) ==
  /\ IF ~isStarted
       THEN /\ lastOp' = Op("keyup", e.code)
            /\ UNCHANGED << engineVars, released, lastTick, runTicks >>
       ELSE stopNote(e.code)
  /\ UNCHANGED << speechVars, appVars >>

\* The sweep interval callback: every collection keeps its unexpired entries.
sweep ==
  LET keep(e) == Alive(e, now) IN
  /\ shapes' = SelectSeq(shapes, keep)
  /\ fragments' = SelectSeq(fragments, keep)
  /\ flyingChars' = SelectSeq(flyingChars, keep)
  /\ swept' = swept \cup {<< "shape", id >> : id \in IdsOf(shapes) \ IdsOf(shapes')}
                    \cup {<< "text", id >> : id \in IdsOf(fragments) \ IdsOf(fragments')}
                    \cup {<< "char", id >> : id \in IdsOf(flyingChars) \ IdsOf(flyingChars')}
  /\ lastOp' = Op("sweep", "")
  /\ UNCHANGED << engineVars, released, lastTick, runTicks, speechVars,
                  isStarted, now, lastKeyTime, philosophyPool, poolRequest, settings,
                  effectDue, ids, meshes, textMeshes, charMeshes, stateRef, pcm,
                  systemVoices, speechVoices, propsStarted,
                  spawns >>

\* Time passes between two callbacks.
Advance(t) ==
  /\ t > now
  /\ now' = t
  /\ lastOp' = Op("advance", "")
  /\ UNCHANGED << engineVars, released, lastTick, runTicks, speechVars,
                  isStarted, shapes, flyingChars, fragments, lastKeyTime,
                  philosophyPool, poolRequest, settings, effectDue, ids, meshes,
                  textMeshes, charMeshes, stateRef, pcm,
                  systemVoices, speechVoices, propsStarted, spawns, swept >>

\* The output graph once setVolumes has run on graph g.
graphWithVolumes(g, c, synth, beat, voice) ==
  IF g.id # 0 /\ c THEN [g EXCEPT !.synth = synth, !.beat = beat, !.tts = voice] ELSE g

\* The interval startBeats arms.
newInterval(bpm, style, amen) ==
  [id |-> timerIds + 1, style |-> style, amen |-> amen, period |-> tickPeriod(bpm)]

\* handleStart (the button shown until started): init, setPreset, setVolumes
\* and startBeats with the settings, then setIsStarted(true).
handleStart ==
  /\ ~isStarted
  /\ timerIds < MaxTimers
  /\ ctx' = TRUE
  /\ \E shuffle \in Shuffles :
       keyFreqMap' = IF ctx THEN keyFreqMap ELSE generateKeyMap(shuffle)
  /\ currentPreset' = settings.soundPreset
  /\ graph' = graphWithVolumes(IF ctx THEN graph ELSE setupAudioGraph(TRUE, graph), TRUE,
                               settings.synthVolume, settings.beatVolume,
                               settings.voiceVolume)
  /\ timerIds' = timerIds + 1
  /\ intervals' = intervalsAfterStop \cup
       {newInterval(settings.bpm, settings.drumStyle, settings.amenType)}
  /\ beatTimer' = timerIds + 1
  /\ currentStep' = stepAfterStart
  /\ runTicks' = 0
  /\ lastTick' = NoTick
  /\ isStarted' = TRUE
  /\ effectDue' = TRUE
  /\ lastOp' = Op("handleStart", "")
  /\ UNCHANGED << voices, activeOscillators, pending, released, speechVars,
                  now, shapes, flyingChars, fragments, lastKeyTime, philosophyPool,
                  poolRequest, settings, ids, meshes, textMeshes, charMeshes, stateRef, pcm,
                  systemVoices, speechVoices,
                  propsStarted, spawns, swept >>

\* The settings effect, run after a commit in which the tempo, the style,
\* the preset, a volume or isStarted changed: once started it sets the preset
\* and the volumes and restarts the beats.
settingsEffect ==
  /\ effectDue
  /\ effectDue' = FALSE
  /\ IF isStarted
       THEN /\ timerIds < MaxTimers
            /\ currentPreset' = settings.soundPreset
            /\ graph' = graphWithVolumes(graph, ctx, settings.synthVolume,
                                         settings.beatVolume, settings.voiceVolume)
            /\ timerIds' = timerIds + 1
            /\ intervals' = intervalsAfterStop \cup
                 {newInterval(settings.bpm, settings.drumStyle, settings.amenType)}
            /\ beatTimer' = timerIds + 1
            /\ currentStep' = stepAfterStart
            /\ runTicks' = 0
            /\ lastTick' = NoTick
       ELSE UNCHANGED << currentPreset, graph, timerIds, intervals, beatTimer,
                         currentStep, runTicks, lastTick >>
  /\ lastOp' = Op("settingsEffect", "")
  /\ UNCHANGED << ctx, keyFreqMap, voices, activeOscillators, pending, released,
                  speechVars, isStarted, now, shapes, flyingChars, fragments,
                  lastKeyTime, philosophyPool, poolRequest, settings, ids, meshes,
                  textMeshes, charMeshes, stateRef, pcm,
                  systemVoices, speechVoices, propsStarted, spawns, swept >>

\* The settings the settings effect depends on.
EffectDeps ==
  {"bpm", "drumStyle", "amenType", "soundPreset", "synthVolume", "beatVolume",
   "voiceVolume"}

\* A control of the panel: setSettings(s => ({...s, [field]: value})).
changeSetting(field, value) ==
  /\ settings' = [settings EXCEPT ![field] = value]
  /\ effectDue' = (effectDue \/ (field \in EffectDeps /\ value # settings[field]))
  /\ lastOp' = Op("changeSetting", field)
  /\ UNCHANGED << engineVars, released, lastTick, runTicks, speechVars,
                  isStarted, now, shapes, flyingChars, fragments, lastKeyTime,
                  philosophyPool, poolRequest, ids, meshes, textMeshes,
                  charMeshes, stateRef, pcm,
                  systemVoices, speechVoices, propsStarted, spawns, swept >>

\* handleStopAll (the STOP button): clearAllNotes, then stopBeats.  isStarted
\* stays as it is.
handleStopAll ==
  /\ IF ~ctx \/ graph.id = 0
       THEN UNCHANGED << voices, activeOscillators, graph >>
       ELSE /\ graph.id < MaxGraphs
            /\ voices' = voicesAfterClear
            /\ activeOscillators' = EmptyMap
            /\ graph' = graphAfterClear
  /\ intervals' = intervalsAfterStop
  /\ beatTimer' = 0
  /\ lastOp' = Op("handleStopAll", "")
  /\ UNCHANGED << ctx, keyFreqMap, currentPreset, pending, timerIds, currentStep,
                  released, lastTick, runTicks, speechVars, appVars >>

\* handleHyper (the HYPER button): draws tempo, style, variant and preset
\* into the settings, then clearAllNotes and generateKeyMap, and, once
\* started, stopBeats and startBeats with the drawn values.
handleHyper(d, shuffle) ==
  /\ settings' = [settings EXCEPT !.bpm = d.bpm, !.drumStyle = d.style,
                                  !.amenType = d.amen, !.soundPreset = d.preset]
  /\ effectDue' = (effectDue \/ settings' # settings)
  /\ IF ~ctx \/ graph.id = 0
       THEN UNCHANGED << voices, activeOscillators, graph >>
       ELSE /\ graph.id < MaxGraphs
            /\ voices' = voicesAfterClear
            /\ activeOscillators' = EmptyMap
            /\ graph' = graphAfterClear
  /\ keyFreqMap' = generateKeyMap(shuffle)
  /\ IF isStarted
       THEN /\ timerIds < MaxTimers
            /\ timerIds' = timerIds + 1
            /\ intervals' = intervalsAfterStop \cup {newInterval(d.bpm, d.style, d.amen)}
            /\ beatTimer' = timerIds + 1
            /\ currentStep' = stepAfterStart
            /\ runTicks' = 0
            /\ lastTick' = NoTick
       ELSE /\ intervals' = IF ~ctx \/ graph.id = 0 THEN intervals ELSE intervalsAfterStop
            /\ beatTimer' = IF ~ctx \/ graph.id = 0 THEN beatTimer ELSE 0
            /\ UNCHANGED << timerIds, currentStep, runTicks, lastTick >>
  /\ lastOp' = Op("handleHyper", "")
  /\ UNCHANGED << ctx, currentPreset, pending, released, speechVars,
                  isStarted, now, shapes, flyingChars, fragments, lastKeyTime,
                  philosophyPool, poolRequest, ids, meshes, textMeshes,
                  charMeshes, stateRef, pcm,
                  systemVoices, speechVoices, propsStarted, spawns, swept >>

\* toggleSetting('ttsEnabled') and handleProviderChange of the speech panel.
toggleSetting(field) ==
  /\ settings' = [settings EXCEPT ![field] = ~settings[field]]
  /\ lastOp' = Op("toggleSetting", field)
  /\ UNCHANGED << engineVars, released, lastTick, runTicks, speechVars,
                  isStarted, now, shapes, flyingChars, fragments, lastKeyTime,
                  philosophyPool, poolRequest, effectDue, ids, meshes, textMeshes,
                  charMeshes, stateRef, pcm,
                  systemVoices, speechVoices, propsStarted, spawns, swept >>

\* getSystemVoices: the voices of window.speechSynthesis, none without it.
getSystemVoices(list) == IF speechApi THEN list ELSE << >>

\* fetchVoices, run at mount and on every voiceschanged event of
\* window.speechSynthesis: a non-empty voice list is stored in the state.
fetchVoices(list) ==
  /\ speechVoices' = getSystemVoices(list)
  /\ systemVoices' = IF Len(getSystemVoices(list)) > 0 THEN getSystemVoices(list)
                     ELSE systemVoices
  /\ lastOp' = Op("fetchVoices", "")
  /\ UNCHANGED << engineVars, released, lastTick, runTicks, speechVars,
                  isStarted, now, shapes, flyingChars, fragments, lastKeyTime,
                  philosophyPool, poolRequest, settings, effectDue, ids, meshes,
                  textMeshes, charMeshes, stateRef, pcm, propsStarted, spawns,
                  swept >>

\* systemVoices[0]?.name || ''.
firstVoiceName == IF Len(systemVoices) > 0 THEN systemVoices[1] ELSE ""

\* handleProviderChange: the provider, and the first system voice for system
\* speech or 'Zephyr' for a cloud provider.
handleProviderChange(provider) ==
  /\ settings' = [settings EXCEPT !.ttsProvider = provider,
                                  !.selectedVoice =
                                    IF provider = BROWSER THEN firstVoiceName
                                    ELSE "Zephyr"]
  /\ lastOp' = Op("handleProviderChange", provider)
  /\ UNCHANGED << engineVars, released, lastTick, runTicks, speechVars,
                  isStarted, now, shapes, flyingChars, fragments, lastKeyTime,
                  philosophyPool, poolRequest, effectDue, ids, meshes, textMeshes,
                  charMeshes, stateRef, pcm,
                  systemVoices, speechVoices, propsStarted, spawns, swept >>

\* -------------------------------------------------------------- Visualizer
Entity(coll, id) == coll[CHOOSE i \in 1..Len(coll) : coll[i].id = id]

\* Faulty variant: a sync effect that adds meshes and never removes one.
syncMeshesAddOnly(map, coll) ==
  [id \in (DOMAIN map) \cup IdsOf(coll) |->
     IF id \in DOMAIN map THEN map[id] ELSE Entity(coll, id)]

\* A sync effect: the meshes of ids that left the collection are removed,
\* and every entry without a mesh gets one holding a copy of the entry.
syncMeshes(map, coll) ==
  [id \in IdsOf(coll) |-> IF id \in DOMAIN map THEN map[id] ELSE Entity(coll, id)]

\* Faulty variant: a commit that runs the sync effect of the shapes only.
renderShapesOnly ==
  /\ meshes' = syncMeshes(meshes, shapes)
  /\ propsStarted' = isStarted
  /\ lastOp' = Op("render", "")
  /\ UNCHANGED << textMeshes, charMeshes, stateRef, pcm,
                  systemVoices, speechVoices, engineVars, released,
                  lastTick, runTicks, speechVars, isStarted, now, shapes,
                  flyingChars, fragments, lastKeyTime, philosophyPool,
                  poolRequest, settings, effectDue, ids, spawns, swept >>

\* A React commit of the Visualizer: the props reference and the three mesh
\* maps follow the state of App.
render ==
  /\ meshes' = syncMeshes(meshes, shapes)
  /\ textMeshes' = syncMeshes(textMeshes, fragments)
  /\ charMeshes' = syncMeshes(charMeshes, flyingChars)
  /\ propsStarted' = isStarted
  /\ lastOp' = Op("render", "")
  /\ UNCHANGED << stateRef, pcm,
                  systemVoices, speechVoices, engineVars, released, lastTick, runTicks, speechVars,
                  isStarted, now, shapes, flyingChars, fragments, lastKeyTime,
                  philosophyPool, poolRequest, settings, effectDue, ids,
                  spawns, swept >>

\* The meshes an animation frame moves and fades by their age: once the
\* Visualizer has seen isStarted, every mesh of the three maps.
Animated ==
  IF propsStarted
    THEN [shapes |-> DOMAIN meshes, texts |-> DOMAIN textMeshes, chars |-> DOMAIN charMeshes]
    ELSE [shapes |-> {}, texts |-> {}, chars |-> {}]

\* One animation frame.  Positions and opacities are not part of the state:
\* the frame shows in the history only.
animate ==
  /\ lastOp' = Op("animate", "")
  /\ UNCHANGED << engineVars, released, lastTick, runTicks, speechVars, appVars >>

\* ------------------------------------------- Visualizer that disposes
\* The variant of the Visualizer whose sync effects dispose what they remove.
\* The module-level geometries, one object per type, shared by all meshes.
geometries == {"sphere", "torus", "octahedron", "cylinder", "box"}

\* A GPU resource: the shared geometry of a type, or a material, texture or
\* geometry created for one entity.
Shared(type) == [res |-> "geometry", kind |-> "shared", id |-> 0, type |-> type]
Own(res, kind, id) == [res |-> res, kind |-> kind, id |-> id, type |-> ""]

\* The object the shapes effect creates for a shape: a Points or Line with a
\* new BufferGeometry, else a Mesh on geometries[s.type] || geometries.box.
shapeObject(s) ==
  [ userData |-> s,
    material |-> Own("material", "shape", s.id),
    geometry |-> IF s.type \in {"points", "line"}
                   THEN Own("geometry", "shape", s.id)
                   ELSE Shared(IF s.type \in geometries THEN s.type ELSE "box") ]

\* The Mesh the fragments effect creates: a new PlaneGeometry and a material
\* with a new CanvasTexture.
textObject(f) ==
  [ userData |-> f,
    map |-> Own("map", "text", f.id),
    material |-> Own("material", "text", f.id),
    geometry |-> Own("geometry", "text", f.id) ]

\* What the effects dispose when they remove an object.
shapeDisposals(obj) == {obj.material, obj.geometry}
textDisposals(mesh) == {mesh.map, mesh.material, mesh.geometry}

\* A React commit of this Visualizer: both sync effects run.  Each removes
\* and disposes the objects whose id left its collection, then creates an
\* object for every entry without one.
sceneSync ==
  LET goneShapes == (DOMAIN stateRef.meshes) \ IdsOf(shapes)
      goneTexts == (DOMAIN stateRef.textMeshes) \ IdsOf(fragments)
  IN
  /\ stateRef.mounted
  /\ stateRef' =
       [ mounted |-> stateRef.mounted,
         looping |-> stateRef.looping,
         frameRan |-> stateRef.frameRan,
         meshes |-> [id \in IdsOf(shapes) |->
                       IF id \in DOMAIN stateRef.meshes
                         THEN stateRef.meshes[id]
                         ELSE shapeObject(Entity(shapes, id))],
         textMeshes |-> [id \in IdsOf(fragments) |->
                           IF id \in DOMAIN stateRef.textMeshes
                             THEN stateRef.textMeshes[id]
                             ELSE textObject(Entity(fragments, id))],
         disposed |-> stateRef.disposed
                        \cup UNION {shapeDisposals(stateRef.meshes[id]) : id \in goneShapes}
                        \cup UNION {textDisposals(stateRef.textMeshes[id]) : id \in goneTexts} ]
  /\ lastOp' = Op("sceneSync", "")
  /\ UNCHANGED << pcm,
                  systemVoices, speechVoices, engineVars, released, lastTick, runTicks, speechVars,
                  isStarted, now, shapes, flyingChars, fragments, lastKeyTime,
                  philosophyPool, poolRequest, settings, effectDue, ids,
                  meshes, textMeshes, charMeshes, propsStarted, spawns, swept >>

\* The resources a frame of this Visualizer reads: composer.render() draws
\* every object of the two groups with its geometry, material and texture.
sceneReads ==
  UNION {shapeDisposals(stateRef.meshes[id]) : id \in DOMAIN stateRef.meshes}
    \cup UNION {textDisposals(stateRef.textMeshes[id]) : id \in DOMAIN stateRef.textMeshes}

\* One animation frame of this Visualizer: it requests the next frame and
\* renders.
sceneFrame ==
  /\ stateRef.looping
  /\ stateRef' = [stateRef EXCEPT !.frameRan = TRUE]
  /\ lastOp' = Op("sceneFrame", "")
  /\ UNCHANGED << engineVars, released, lastTick, runTicks, speechVars,
                  isStarted, now, shapes, flyingChars, fragments, lastKeyTime,
                  philosophyPool, poolRequest, settings, effectDue, ids, meshes,
                  textMeshes, charMeshes, pcm, systemVoices, speechVoices,
                  propsStarted, spawns, swept >>

\* The cleanup of the mount effect, run when the Visualizer unmounts: it
\* cancels the frame that the call animate(0) of the mount requested, which
\* stops the loop only when that frame has not run yet, and disposes every
\* shared geometry.
sceneUnmount ==
  /\ stateRef.mounted
  /\ stateRef' = [stateRef EXCEPT
                    !.mounted = FALSE,
                    !.looping = stateRef.frameRan,
                    !.disposed = @ \cup {Shared(type) : type \in geometries}]
  /\ lastOp' = Op("sceneUnmount", "")
  /\ UNCHANGED << engineVars, released, lastTick, runTicks, speechVars,
                  isStarted, now, shapes, flyingChars, fragments, lastKeyTime,
                  philosophyPool, poolRequest, settings, effectDue, ids, meshes,
                  textMeshes, charMeshes, pcm, systemVoices, speechVoices,
                  propsStarted, spawns, swept >>

\* ----------------------------------------------------------- specifications
\* Voice allocator: key presses and releases, teardown callbacks, silence.
Next ==
  \/ init /\ UNCHANGED << speechVars, appVars >>
  \/ \E k \in KeyCodes : playNote(k) /\ UNCHANGED << speechVars, appVars >>
  \/ \E k \in KeyCodes : stopNote(k) /\ UNCHANGED << speechVars, appVars >>
  \/ \E t \in BagToSet(pending) : Teardown(t) /\ UNCHANGED << speechVars, appVars >>
  \/ clearAllNotes /\ UNCHANGED << speechVars, appVars >>

Spec == Init /\ [][Next]_vars

\* Beat sequencer: start, stop, ticks, and the silence operation that stops it.
BeatNext ==
  \/ init /\ UNCHANGED << speechVars, appVars >>
  \/ \E b \in Bpms, s \in DrumStyle, a \in AmenType :
       startBeats(b, s, a) /\ UNCHANGED << speechVars, appVars >>
  \/ stopBeats /\ UNCHANGED << speechVars, appVars >>
  \/ \E iv \in intervals : Tick(iv) /\ UNCHANGED << speechVars, appVars >>
  \/ clearAllNotes /\ UNCHANGED << speechVars, appVars >>
  \/ \E v \in VolumeInputs : setVolumes(v[1], v[2], v[3]) /\ UNCHANGED << speechVars, appVars >>

BeatSpec == Init /\ [][BeatNext]_vars

\* Speech router of the engine: cloud requests in flight and their outcomes,
\* system speech, and the engine operations that rebuild the voice bus.
SpeechNext ==
  \/ microtasksDone /\ init /\ UNCHANGED << speechVars, appVars >>
  \/ \E t \in Texts, v \in {80} :
       /\ microtasksDone
       /\ speakCloud(t, GEMINI, "Zephyr", v)
       /\ lastOp' = Op("speakCloud", t)
       /\ UNCHANGED << engineVars, released, lastTick, runTicks, appVars >>
  \/ \E r \in requests, o \in CloudOutcomes :
       /\ Settle(r, o)
       /\ lastOp' = Op("settle", r.text)
       /\ UNCHANGED << engineVars, released, lastTick, runTicks, appVars >>
  \/ \E d \in decoding :
       /\ Resume(d)
       /\ lastOp' = Op("resume", d.text)
       /\ UNCHANGED << engineVars, released, lastTick, runTicks, appVars >>
  \/ \E t \in Texts, v \in {80}, n \in VoiceNames :
       /\ microtasksDone
       /\ speakWebSpeech(t, v, n, DefaultPitch, DefaultRate)
       /\ lastOp' = Op("speakWebSpeech", t)
       /\ UNCHANGED << engineVars, released, lastTick, runTicks, appVars >>
  \/ \E list \in VoiceLists : microtasksDone /\ fetchVoices(list)
  \/ microtasksDone /\ clearAllNotes /\ UNCHANGED << speechVars, appVars >>

SpeechSpec == SpeechInit /\ [][SpeechNext]_vars

\* Key presses and releases of the started application, with the release
\* teardowns they schedule.
KeyNext ==
  \/ \E resp \in PoolResponses : loadPool(resp)
  \/ handleStart
  \/ settingsEffect
  \/ \E e \in KeyEvents, ty \in ShapeTypes, sl \in ShapeLifeTimes,
       fl \in FragmentLifeTimes, pk \in Picks :
       ids < MaxIds /\ handleKeyDown(e, ty, sl, fl, pk)
  \/ \E e \in KeyEvents : handleKeyUp(e)
  \/ \E t \in BagToSet(pending) : Teardown(t) /\ UNCHANGED << speechVars, appVars >>

KeySpec == Init /\ [][KeyNext]_vars

\* Entity lifecycle: key presses, the passing of time, the sweep, commits
\* of the Visualizer and animation frames.
LifeNext ==
  \/ \E resp \in PoolResponses : loadPool(resp)
  \/ handleStart
  \/ settingsEffect
  \/ \E e \in KeyEvents, ty \in ShapeTypes, sl \in ShapeLifeTimes,
       fl \in FragmentLifeTimes, pk \in Picks :
       ids < MaxIds /\ handleKeyDown(e, ty, sl, fl, pk)
  \/ \E t \in Instants : Advance(t)
  \/ sweep
  \/ render
  \/ animate

LifeSpec == Init /\ [][LifeNext]_vars

\* The event loop of the started application with speech enabled: every
\* handler and callback is a task the loop runs when the thread is free.
\* The loop takes a task when the microtask queue is empty and the settings
\* effect of the last commit has run; the continuations of speakCloud are
\* promise reactions and run from the microtask queue.
loopIdle == microtasksDone /\ ~effectDue

KeyDownTask ==
  \E e \in LoopKeyEvents, ty \in ShapeTypes, sl \in ShapeLifeTimes,
       fl \in FragmentLifeTimes, pk \in LoopPicks :
    loopIdle /\ threadFree /\ ids < MaxLoopIds /\ handleKeyDown(e, ty, sl, fl, pk)
KeyUpTask ==
  \E e \in LoopKeyEvents :
    loopIdle /\ threadFree /\ BagCardinality(pending) < MaxLoopPending /\ handleKeyUp(e)
TeardownTask ==
  \E t \in BagToSet(pending) :
    loopIdle /\ threadFree /\ Teardown(t) /\ UNCHANGED << speechVars, appVars >>
TickTask ==
  \E iv \in intervals :
    loopIdle /\ threadFree /\ currentStep < MaxLoopStep /\ Tick(iv) /\ UNCHANGED << speechVars, appVars >>
SweepTask == loopIdle /\ threadFree /\ sweep
RenderTask == loopIdle /\ threadFree /\ render
FrameTask == loopIdle /\ threadFree /\ animate
SettleTask ==
  \E r \in requests, o \in LoopOutcomes :
    /\ Settle(r, o)
    /\ lastOp' = Op("settle", r.text)
    /\ UNCHANGED << engineVars, released, lastTick, runTicks, appVars >>

ResumeTask ==
  \E d \in decoding :
    /\ Resume(d)
    /\ lastOp' = Op("resume", d.text)
    /\ UNCHANGED << engineVars, released, lastTick, runTicks, appVars >>
EffectTask == threadFree /\ settingsEffect

LoopNext ==
  \/ \E resp \in LoopResponses : ~effectDue /\ threadFree /\ loadPool(resp)
  \/ loopIdle /\ threadFree /\ handleStart
  \/ EffectTask
  \/ loopIdle /\ threadFree /\ ~settings.ttsEnabled /\ toggleSetting("ttsEnabled")
  \/ KeyDownTask
  \/ KeyUpTask
  \/ TeardownTask
  \/ TickTask
  \/ \E t \in LoopInstants : loopIdle /\ Advance(t)
  \/ SweepTask
  \/ RenderTask
  \/ FrameTask
  \/ SettleTask
  \/ ResumeTask

LoopSpec == Init /\ [][LoopNext]_vars

\* A session that fills the collections: the pool has loaded before the
\* start, the key is pressed once at each instant, the instants being just
\* over a cooldown apart, and then again and again at the last one, with the
\* sweep running or not in between.
PressedNow == Len(shapes) > 0 /\ shapes[Len(shapes)].createdAt = now
LastCapInstant == CHOOSE t \in CapInstants : \A u \in CapInstants : u <= t
NextCapInstant == CHOOSE t \in CapInstants : t > now /\ \A u \in CapInstants : u > now => t <= u

CapNext ==
  \/ \E resp \in CapResponses : loadPool(resp)
  \/ poolRequest # "pending" /\ handleStart
  \/ settingsEffect
  \/ \E e \in LoopKeyEvents, ty \in ShapeTypes, sl \in ShapeLifeTimes,
       fl \in CapFragmentLifeTimes, pk \in LoopPicks :
       /\ ids < MaxCapIds
       /\ isStarted /\ ~effectDue
       /\ PressedNow => now = LastCapInstant
       /\ handleKeyDown(e, ty, sl, fl, pk)
  \/ PressedNow /\ now # LastCapInstant /\ Advance(NextCapInstant)
  \/ ~effectDue /\ sweep

CapSpec == Init /\ [][CapNext]_vars

\* Fragment spawning: key presses at instants around the cooldown, with the
\* speech panel switched on and off and between providers; the system
\* voices load, if they do, while the start screen is shown, and the
\* settings effect of the start runs before the next event is handled.
CooldownNext ==
  \/ \E resp \in PoolResponses : ~effectDue /\ loadPool(resp)
  \/ handleStart
  \/ settingsEffect
  \/ ~effectDue /\ toggleSetting("ttsEnabled")
  \/ \E p \in ProviderInputs : ~effectDue /\ handleProviderChange(p)
  \/ \E list \in LoadedVoiceLists : ~isStarted /\ fetchVoices(list)
  \/ \E e \in KeyEvents, ty \in ShapeTypes, sl \in ShapeLifeTimes,
       fl \in FragmentLifeTimes, pk \in Picks :
       ids < MaxIds /\ ~effectDue /\ handleKeyDown(e, ty, sl, fl, pk)
  \/ \E t \in CooldownInstants : ~effectDue /\ Advance(t)

CooldownSpec == Init /\ [][CooldownNext]_vars

\* Presets and key map of the engine: preset switches and reshuffles between
\* key presses, releases and their teardowns.
PresetNext ==
  \/ init /\ UNCHANGED << speechVars, appVars >>
  \/ generateKeyMapCall /\ UNCHANGED << speechVars, appVars >>
  \/ \E p \in PresetInputs : setPreset(p) /\ UNCHANGED << speechVars, appVars >>
  \/ \E k \in KeyCodes :
       /\ Len(voices) < MaxPresetVoices
       /\ playNote(k) /\ UNCHANGED << speechVars, appVars >>
  \/ \E k \in KeyCodes :
       /\ BagCardinality(pending) < MaxPresetPending
       /\ stopNote(k) /\ UNCHANGED << speechVars, appVars >>
  \/ \E t \in BagToSet(pending) : Teardown(t) /\ UNCHANGED << speechVars, appVars >>

PresetSpec == Init /\ [][PresetNext]_vars

\* Entity lifecycle under the Visualizer that disposes: key presses that
\* draw shapes of two types, the passing of time, the sweep, commits and
\* animation frames, until the Visualizer unmounts with the application;
\* the settings effect of the start runs before the next event is handled.
sceneIdle == stateRef.mounted /\ ~effectDue

SceneNext ==
  \/ \E resp \in PoolResponses : sceneIdle /\ loadPool(resp)
  \/ sceneIdle /\ handleStart
  \/ stateRef.mounted /\ settingsEffect
  \/ \E e \in KeyEvents, ty \in SceneShapeTypes, sl \in ShapeLifeTimes,
       fl \in FragmentLifeTimes, pk \in Picks :
       sceneIdle /\ ids < MaxSceneIds /\ handleKeyDown(e, ty, sl, fl, pk)
  \/ \E t \in Instants : sceneIdle /\ Advance(t)
  \/ sceneIdle /\ sweep
  \/ ~effectDue /\ sceneSync
  \/ ~effectDue /\ sceneFrame
  \/ ~effectDue /\ sceneUnmount

SceneSpec == Init /\ [][SceneNext]_vars

\* The audio payload of cloud responses: payloads the voice service encodes
\* from samples, payloads that are no 16-bit audio, and their decoding.
PcmNext ==
  \/ \E samples \in PcmInputs : receive(samples, btoa(encodePcm(samples)))
  \/ \E raw \in RawPayloads : receive(<< >>, raw)
  \/ decodePayload

PcmSpec == Init /\ [][PcmNext]_vars

\* A session at the control panel: start, the STOP and HYPER buttons, tempo
\* nudges, panel controls, the settings effect and beat ticks.  The effect
\* of a state change runs before the next input event is handled.
PanelNext ==
  \/ ~effectDue /\ handleStart
  \/ ~effectDue /\ isStarted /\ handleStopAll
  \/ \E d \in HyperDraws, shuffle \in Shuffles :
       ~effectDue /\ isStarted /\ handleHyper(d, shuffle)
  \/ \E e \in PanelKeyEvents, ty \in ShapeTypes, sl \in ShapeLifeTimes,
       fl \in FragmentLifeTimes, pk \in LoopPicks :
       ~effectDue /\ handleKeyDown(e, ty, sl, fl, pk)
  \/ \E c \in PanelInputs : ~effectDue /\ isStarted /\ changeSetting(c.field, c.value)
  \/ settingsEffect
  \/ \E iv \in intervals :
       /\ currentStep < MaxPanelStep
       /\ Tick(iv) /\ UNCHANGED << speechVars, appVars >>

PanelSpec == Init /\ [][PanelNext]_vars

\* ------------------------------------------------------------------ claims
\* The number of the key press that drew an entity id.
PressOf(id) == (id + 2) \div 3

IsStep(name, key) == lastOp'.op = name /\ lastOp'.key = key

\* C1: at any time at most one voice exists per key: no key has two
\* synthesis graphs that were started and not yet torn down.
C1_OneVoicePerKey == \A k \in KeyCodes : Cardinality(Sounding(k)) <= 1

\* C2: a playNote(k) that directly follows a playNote(k) is a no-op: it
\* changes nothing in the engine, so the entry registered for k (the active
\* voice of k, present whenever the engine is initialised) is the one the
\* first call left, unreplaced and unaltered, and no further voice is built.
C2_PlayNoteIdempotent ==
  [][\A k \in KeyCodes :
       (lastOp.op = "playNote" /\ lastOp.key = k /\ IsStep("playNote", k))
         => /\ UNCHANGED engineVars
            /\ ctx => /\ k \in DOMAIN activeOscillators'
                      /\ voices'[activeOscillators'[k]].key = k
                      /\ Cardinality({x \in DOMAIN activeOscillators' : x = k}) = 1]_vars

C2_Witness ==
  /\ lastOp.op = "playNote" /\ lastOp.rep
  /\ lastOp.key \in DOMAIN activeOscillators
  /\ voices[activeOscillators[lastOp.key]].running

\* C3, as a property of finished runs: once no release-teardown callback is
\* pending any more, every voice whose key has been released is torn down
\* (its generators are stopped).
C3_ReleasedVoicesTornDown ==
  (pending = EmptyBag) => \A v \in released : ~voices[v].running

\* C4: stopNote(key) with no voice registered changes nothing and schedules
\* nothing; with a voice registered the call leaves the entry and the
\* generators alone and schedules one teardown; and while a voice is in its
\* release, its entry is removed and its generators are stopped only when a
\* teardown scheduled for that voice fires (clearAllNotes, the force-stop,
\* set aside).
C4_StopNoteDefersTeardown ==
  [][\A k \in KeyCodes :
       /\ (IsStep("stopNote", k) /\ k \notin DOMAIN activeOscillators)
            => UNCHANGED engineVars
       /\ (IsStep("stopNote", k) /\ k \in DOMAIN activeOscillators)
            => /\ activeOscillators' = activeOscillators
               /\ \A v \in 1..Len(voices) : voices'[v].running = voices[v].running
               /\ pending' = pending (+) SetToBag({teardownFor(k)})
       /\ \A v \in 1..Len(voices) :
            LET own == [key |-> voices[v].key, voice |-> v] IN
            /\ (k \in DOMAIN activeOscillators /\ activeOscillators[k] = v
                  /\ voices[v].env = "release"
                  /\ k \notin DOMAIN activeOscillators')
                 => \/ lastOp'.op = "clearAllNotes"
                    \/ CopiesIn(own, pending') < CopiesIn(own, pending)
            /\ (voices[v].env = "release" /\ voices[v].running /\ ~voices'[v].running)
                 => \/ lastOp'.op = "clearAllNotes"
                    \/ CopiesIn(own, pending') < CopiesIn(own, pending)]_vars

\* C5: clearAllNotes on an initialised engine empties the active-voice set,
\* stops the generators of every voice that was registered (releasing or
\* not) and replaces the output graph by a freshly built one.
C5_ClearAllNotesForceStops ==
  [][(IsStep("clearAllNotes", "") /\ ctx)
       => /\ activeOscillators' = EmptyMap
          /\ \A v \in RegisteredVoices : ~voices'[v].running
          /\ graph'.id = graph.id + 1
          /\ graph'.id # 0]_vars

\* A clearAllNotes that caught a voice in its release phase: the voice is
\* cut while its teardown callback is still pending.
C5_Witness ==
  /\ lastOp.op = "clearAllNotes"
  /\ activeOscillators = EmptyMap
  /\ \E t \in BagToSet(pending) :
       voices[t.voice].env = "cut" /\ ~voices[t.voice].running
  /\ graph.id >= 2

\* C6: before init every engine operation is a no-op: it leaves the active
\* voices, the beat timer and the step index exactly as they were.
C6_NoOpBeforeInit ==
  [][(~ctx /\ lastOp'.op \in {"playNote", "stopNote", "clearAllNotes", "setVolumes",
                              "startBeats", "stopBeats"})
       => UNCHANGED << voices, activeOscillators, pending, graph,
                       beatTimer, intervals, currentStep >>]_vars

\* C7: at most one recurring tick is armed at any time, and it is the one
\* the engine holds; startBeats leaves exactly one armed tick and step index
\* 0; the first pattern evaluation of every run is that of step 0.
C7_SingleTimerFromStepZero ==
  /\ Cardinality(intervals) <= 1
  /\ \A iv \in intervals : iv.id = beatTimer
  /\ lastOp.op = "startBeats"
       => Cardinality(intervals) = 1 /\ currentStep = 0 /\ beatTimer # 0
  /\ (lastTick # NoTick /\ lastTick.n = 0) => lastTick.step = 0

\* A later run of the sequencer has evaluated its first tick.
C7_Witness ==
  /\ timerIds >= 2
  /\ beatTimer = timerIds
  /\ lastOp.op = "tick"
  /\ lastTick.n = 0 /\ lastTick.step = 0

\* C8: stopBeats leaves no tick armed and no interval held; called when the
\* sequencer is already stopped it changes nothing; and a tick fires only
\* while a run is held, that is never between a stopBeats and the next
\* startBeats.
C8_StopBeatsCancels ==
  [][/\ IsStep("stopBeats", "") => (intervals' = {} /\ beatTimer' = 0)
     /\ (IsStep("stopBeats", "") /\ beatTimer = 0) => UNCHANGED engineVars
     /\ IsStep("tick", "") => (beatTimer # 0 /\ beatTimer' # 0)]_vars

\* stopBeats called twice in a row after a run that had evaluated ticks.
C8_Witness ==
  /\ lastOp.op = "stopBeats" /\ lastOp.rep
  /\ lastTick # NoTick
  /\ beatTimer = 0 /\ intervals = {}

\* C9: the n-th pattern evaluation of a run (n = 0, 1, 2, ...) uses step
\* n mod 16, and the step index stands at the number of evaluations made.
C9_StepIsTickCountMod16 ==
  /\ lastTick # NoTick => lastTick.step = lastTick.n % 16
  /\ lastTick # NoTick => (lastTick.n = runTicks - 1 /\ currentStep = runTicks)

\* The seventeenth evaluation of a run wrapped from step 15 to step 0.
C9_Witness == lastTick # NoTick /\ lastTick.n = 16 /\ lastTick.step = 0

HitCount(hits, type) == Cardinality({i \in 1..Len(hits) : hits[i].type = type})

\* C10: with style DNB, whatever the variant, a tick triggers the kick
\* exactly once at steps 0 and 10 and the snare exactly once at steps 4 and
\* 12, and neither at any other step.
C10_DnbKickSnareSteps ==
  (lastTick # NoTick /\ lastTick.style = DNB)
    => /\ HitCount(lastTick.hits, "kick") = (IF lastTick.step \in {0, 10} THEN 1 ELSE 0)
       /\ HitCount(lastTick.hits, "snare") = (IF lastTick.step \in {4, 12} THEN 1 ELSE 0)

\* A DNB run with a variant other than the default reached the second kick.
C10_Witness ==
  /\ lastTick # NoTick /\ lastTick.style = DNB /\ lastTick.amen = THE_WORM
  /\ lastTick.step = 10 /\ lastTick.n = 10
  /\ HitCount(lastTick.hits, "kick") = 1

\* C11: when the cloud request of a speakCloud call fails (the request
\* rejects, or decoding its payload throws), speakCloud hands the same text
\* to speakWebSpeech, so that it is the utterance queued for system speech,
\* and the error does not reach the caller.
C11_CloudFailureFallsBack ==
  [][\A r \in requests \cup decoding :
       (/\ IsStep("settle", r.text) \/ IsStep("resume", r.text)
        /\ lastSettle' # lastSettle
        /\ lastSettle'.id = r.id /\ Throws(lastSettle'.outcome))
         => /\ Len(speechQueue') = 1
            /\ speechQueue'[1].text = r.text
            /\ speechQueue'[1].volume = r.volume
            /\ uncaught' = uncaught]_vars

\* C12: while a cloud speech request is in flight, the event loop, whenever
\* it is between tasks (no promise reaction and no effect pending), can run a
\* key press (playNote and the entities), a key release (stopNote), a
\* release teardown, a beat tick, the sweep, a commit and an animation
\* frame, none of which waits for the request; and a key press past the
\* cooldown issues a second request while the first is still in flight.
C12_RequestNeverBlocks ==
  (requests # {} /\ loopIdle) =>
    /\ (ids < MaxLoopIds /\ Len(voices) < MaxVoices /\ requestIds < MaxRequests)
         => ENABLED KeyDownTask
    /\ BagCardinality(pending) < MaxLoopPending => ENABLED KeyUpTask
    /\ pending # EmptyBag => ENABLED TeardownTask
    /\ (intervals # {} /\ currentStep < MaxLoopStep) => ENABLED TickTask
    /\ ENABLED SweepTask
    /\ ENABLED RenderTask
    /\ ENABLED FrameTask
    /\ (/\ ids < MaxLoopIds /\ Len(voices) < MaxVoices /\ requestIds < MaxRequests
        /\ isStarted /\ settings.ttsEnabled /\ settings.ttsProvider # BROWSER
        /\ cooldownPassed(now) /\ Len(philosophyPool) > 0)
         => ENABLED (KeyDownTask /\ Cardinality(requests') = Cardinality(requests) + 1)

\* Two requests are in flight, the second issued by a key press made while
\* the first was pending, in a run whose beat has ticked and with a release
\* under way.
C12_Witness ==
  /\ Cardinality(requests) = 2
  /\ lastOp.op = "playNote"
  /\ runTicks > 0
  /\ pending # EmptyBag

\* The voices built for key k, stopped or not.
VoicesOf(vs, k) == {v \in 1..Len(vs) : vs[v].key = k}

\* C13: every qualifying key press (started, no auto-repeat, a letter) adds
\* exactly one new shape and exactly one new flying character, each with an
\* id no live entity has, whether or not playNote built a voice; and while
\* no key has been released, the presses made so far have built exactly
\* one voice for the key and one shape and one character each.
C13_PressAddsOneShapeOneChar ==
  [][\A e \in KeyEvents :
       IsStep("playNote", e.code)
         => /\ Cardinality(IdsOf(shapes') \ IdsOf(shapes)) = 1
            /\ Cardinality(IdsOf(flyingChars') \ IdsOf(flyingChars)) = 1
            /\ shapes'[Len(shapes')].id \notin IdsOf(shapes)
            /\ flyingChars'[Len(flyingChars')].id \notin IdsOf(flyingChars)
            /\ Cardinality(IdsOf(shapes')) = Len(shapes')
            /\ Cardinality(IdsOf(flyingChars')) = Len(flyingChars')
            /\ (released' = {} /\ pending' = EmptyBag)
                 => /\ Cardinality(VoicesOf(voices', e.code)) = 1
                    /\ Len(shapes') = ids'
                    /\ Len(flyingChars') = ids']_vars

\* The same key pressed three times with no release: one voice, three
\* shapes and three flying characters, all distinct.
C13_Witness ==
  /\ lastOp.op = "playNote" /\ lastOp.rep
  /\ ids = 3
  /\ released = {} /\ pending = EmptyBag
  /\ Len(voices) = 1
  /\ Cardinality(IdsOf(shapes)) = 3
  /\ Cardinality(IdsOf(flyingChars)) = 3

\* A collection that got a new entry kept the newest of its old entries, as
\* many as the tail allows and in their order, and the new entry is last.
KeptNewest(old, new, tail) ==
  LET k == Len(new) - 1 IN
  /\ Len(new) = (IF Len(old) <= tail THEN Len(old) ELSE tail) + 1
  /\ SubSeq(new, 1, k) = SubSeq(old, Len(old) - k + 1, Len(old))
  /\ new[Len(new)].id \notin IdsOf(old)

OldestFirst(coll) ==
  \A i \in 1..(Len(coll) - 1) :
    coll[i].createdAt <= coll[i + 1].createdAt /\ coll[i].id < coll[i + 1].id

\* C14: after any key presses and sweeps there are at most 151 shapes, 101
\* flying characters and 11 text fragments; every collection is in order of
\* creation, and a press that adds an entry drops only entries from the old
\* end, exactly those beyond the retained tail, and keeps the new entry.
C14_CollectionsCapped ==
  [][/\ Len(shapes') <= ShapeTail + 1
     /\ Len(flyingChars') <= CharTail + 1
     /\ Len(fragments') <= FragmentTail + 1
     /\ OldestFirst(shapes') /\ OldestFirst(flyingChars') /\ OldestFirst(fragments')
     /\ ids' = ids + 1
          => /\ KeptNewest(shapes, shapes', ShapeTail)
             /\ KeptNewest(flyingChars, flyingChars', CharTail)
             /\ IF Len(spawns') > Len(spawns)
                  THEN KeptNewest(fragments, fragments', FragmentTail)
                  ELSE fragments' = fragments]_vars

\* Presses past the caps: 151 shapes and 101 characters are live and the
\* oldest of each have been dropped by insertions.
C14_Witness ==
  /\ lastOp.op = "playNote"
  /\ Len(shapes) = ShapeTail + 1 /\ Len(flyingChars) = CharTail + 1
  /\ ids > ShapeTail + 1
  /\ PressOf(shapes[1].id) = ids - ShapeTail
  /\ PressOf(flyingChars[1].id) = ids - CharTail
  /\ swept = {}

\* C15: a fragment is spawned only by a key press made more than 4000 ms
\* after the previous spawn (or when there was none), and the spawn becomes
\* the time the cooldown is counted from, so any two spawns are more than
\* 4000 ms apart; the speech router (cloud request or system utterance) is
\* invoked only in a step that spawns a fragment, once, with its text.
C15_FragmentCooldown ==
  [][/\ \A i, j \in 1..Len(spawns') : i < j => spawns'[j].at - spawns'[i].at > Cooldown
     /\ Len(spawns') > Len(spawns)
          => /\ lastOp'.op = "playNote"
             /\ Len(spawns') = Len(spawns) + 1
             /\ now - lastKeyTime > Cooldown
             /\ lastKeyTime' = now
             /\ spawns'[Len(spawns')].at = now
             /\ fragments'[Len(fragments')].createdAt = now
     /\ Len(fragments') > Len(fragments) => Len(spawns') > Len(spawns)
     /\ (requestIds' # requestIds \/ speechQueue' # speechQueue)
          => /\ Len(spawns') = Len(spawns) + 1
             /\ requestIds' <= requestIds + 1
             /\ \/ /\ requestIds' = requestIds + 1 /\ speechQueue' = speechQueue
                    /\ \E r \in requests' \ requests : r.text = spawns'[Len(spawns')].text
                 \/ /\ requestIds' = requestIds
                    /\ Len(speechQueue') = 1
                    /\ speechQueue'[1].text = spawns'[Len(spawns')].text
                    /\ speechQueue'[1].volume = settings.voiceVolume]_vars

\* Two spawns 4001 ms apart, each spoken through the cloud, with a press in
\* between, 4000 ms after the first, that spawned nothing.
C15_Witness ==
  /\ Len(spawns) = 2
  /\ spawns[1].at = 5000 /\ spawns[2].at = 9001
  /\ spawns[1].spoke = "cloud" /\ spawns[2].spoke = "cloud"
  /\ requestIds = 2
  /\ ids = 3

\* The live collection and the mesh map of a kind of entity.
Live(kind) ==
  CASE kind = "shape" -> shapes [] kind = "text" -> fragments [] kind = "char" -> flyingChars
MeshIds(kind) ==
  CASE kind = "shape" -> DOMAIN meshes
    [] kind = "text" -> DOMAIN textMeshes
    [] kind = "char" -> DOMAIN charMeshes
Kinds == {"shape", "text", "char"}

\* C16, as stated: an entity a sweep pass has removed is from then on
\* neither in its live collection nor in the mesh map the animation frame
\* iterates.
C16_SweptNeverIterated ==
  \A x \in swept : x[2] \notin IdsOf(Live(x[1])) /\ x[2] \notin MeshIds(x[1])

\* C16, amended: a sweep pass removes every entity whose age has reached
\* its lifetime (and no other); a removed entity is never again in its live
\* collection; its mesh leaves the mesh map with the next commit of the
\* Visualizer and is never in the map again after that.
C16_SweptGoneAfterSync ==
  [][/\ IsStep("sweep", "")
          => \A k \in Kinds :
               IdsOf(Live(k)') =
                 {Live(k)[i].id : i \in {j \in 1..Len(Live(k)) : Alive(Live(k)[j], now)}}
     /\ \A x \in swept' :
          /\ x[2] \notin IdsOf(Live(x[1])')
          /\ IsStep("render", "") => x[2] \notin MeshIds(x[1])'
          /\ x[2] \notin MeshIds(x[1]) => x[2] \notin MeshIds(x[1])']_vars

\* A commit after a sweep: the flying character of a press has expired and
\* been swept and its mesh is gone, while the shape of the same press is
\* still live and keeps its mesh.
C16_Witness ==
  /\ lastOp.op = "render"
  /\ \E x \in swept :
       /\ x[1] = "char"
       /\ x[2] \notin DOMAIN charMeshes
       /\ \E s \in DOMAIN meshes : s \in IdsOf(shapes) /\ PressOf(s) = PressOf(x[2])

\* The mesh map of a kind of entity, and the ids an animation frame updates.
MeshMap(kind) ==
  CASE kind = "shape" -> meshes [] kind = "text" -> textMeshes [] kind = "char" -> charMeshes
Updated(kind) ==
  CASE kind = "shape" -> Animated.shapes
    [] kind = "text" -> Animated.texts
    [] kind = "char" -> Animated.chars
Unexpired(e) == now - e.createdAt < e.lifeTime

\* C17, as stated: at every moment an entity is among those the animation
\* frame updates exactly when now - createdAt < lifeTime.
C17_UpdatedIffUnexpired ==
  \A k \in Kinds :
    /\ \A i \in 1..Len(Live(k)) : (Live(k)[i].id \in Updated(k)) <=> Unexpired(Live(k)[i])
    /\ \A id \in DOMAIN MeshMap(k) : (id \in Updated(k)) <=> Unexpired(MeshMap(k)[id])

\* C17, amended: the equivalence holds up to the sweep and the commit.
\* Right after a sweep pass every entity of a live collection has
\* now - createdAt < lifeTime; right after a commit of the Visualizer the
\* meshes are exactly the live entities; an entity among the meshes that has
\* expired is either still live, waiting for the next sweep pass, or swept,
\* waiting for the next commit.
C17_UpdatedUpToSweepAndSync ==
  \A k \in Kinds :
    /\ lastOp.op = "sweep" => \A i \in 1..Len(Live(k)) : Unexpired(Live(k)[i])
    /\ lastOp.op = "render" => DOMAIN MeshMap(k) = IdsOf(Live(k))
    /\ \A id \in DOMAIN MeshMap(k) :
         \/ id \in IdsOf(Live(k)) /\ Entity(Live(k), id) = MeshMap(k)[id]
         \/ << k, id >> \in swept /\ ~Unexpired(MeshMap(k)[id])

\* A sweep pass has just removed an expired flying character at the very
\* instant its age reached its lifetime, and its mesh is still among those
\* the next animation frame updates.
C17_Witness ==
  /\ lastOp.op = "sweep"
  /\ \E id \in Updated("char") :
       /\ << "char", id >> \in swept
       /\ now - charMeshes[id].createdAt = charMeshes[id].lifeTime

\* C18: when the text-generation call has failed, the pool is from then on
\* the built-in list, which has at least ten phrases, and every fragment
\* spawned carries one of its phrases.
C18_FailedFetchUsesFallback ==
  poolRequest = "failed"
    => /\ philosophyPool = FallbackPhrases
       /\ Len(philosophyPool) >= 10
       /\ \A i \in 1..Len(spawns) :
            \E j \in 1..Len(FallbackPhrases) : spawns[i].text = FallbackPhrases[j]

\* After a failed fetch two fragments have been spawned, with the first and
\* the last phrase of the built-in list.
C18_Witness ==
  /\ poolRequest = "failed"
  /\ Len(spawns) = 2
  /\ spawns[1].text = FallbackPhrases[1]
  /\ spawns[2].text = FallbackPhrases[10]
  /\ Len(fragments) = 2

\* C19: once generateKeyMap has run, the key map is a bijection between the
\* key identifiers and the palette: every key has a palette frequency, no two
\* keys share one, every palette frequency belongs to a key.
C19_KeyMapBijection ==
  keyFreqMap # EmptyMap
    => /\ DOMAIN keyFreqMap = KeySet
       /\ \A k \in KeySet : \E i \in 1..Len(baseFreqs) : keyFreqMap[k] = baseFreqs[i]
       /\ \A k1, k2 \in KeySet : keyFreqMap[k1] = keyFreqMap[k2] => k1 = k2
       /\ \A i \in 1..Len(baseFreqs) : \E k \in KeySet : keyFreqMap[k] = baseFreqs[i]

\* C20: a setPreset call changes the stored preset and nothing else of the
\* engine; no step changes the preset or the nodes a voice was built with;
\* and a voice is built only by playNote, from the preset stored at that call.
C20_SetPresetOnlyStores ==
  [][/\ lastOp'.op = "setPreset"
          => UNCHANGED << ctx, graph, keyFreqMap, voices, activeOscillators, pending,
                          beatTimer, intervals, timerIds, currentStep >>
     /\ Len(voices') >= Len(voices)
     /\ \A i \in 1..Len(voices) :
          /\ voices'[i].preset = voices[i].preset
          /\ voices'[i].nodes = voices[i].nodes
          /\ voices'[i].attack = voices[i].attack
     /\ Len(voices') > Len(voices)
          => /\ lastOp'.op = "playNote"
             /\ Len(voices') = Len(voices) + 1
             /\ voices'[Len(voices')].preset = currentPreset
             /\ voices'[Len(voices')].nodes = PresetNodes(currentPreset)
             /\ voices'[Len(voices')].attack = PresetAttack(currentPreset)]_vars

\* A preset switch while a key sounds, then a second key: the first voice
\* still has the nodes of the initial preset, the second those of the new one.
C20_Witness ==
  /\ lastOp.op = "playNote"
  /\ currentPreset = CELESTIAL_PAD
  /\ Len(voices) = 2
  /\ DOMAIN activeOscillators = {voices[1].key, voices[2].key}
  /\ voices[1].key # voices[2].key
  /\ voices[1].running /\ voices[1].env = "attack"
  /\ voices[1].preset = STELLAR_WINDS /\ voices[1].nodes = PresetNodes(STELLAR_WINDS)
  /\ voices[2].preset = CELESTIAL_PAD /\ voices[2].nodes = PresetNodes(CELESTIAL_PAD)

\* C21: a release-teardown callback that was scheduled before a
\* clearAllNotes and fires after it is harmless: every voice registered on
\* an output graph built after the graph of the callback's voice keeps its
\* entry and its state.
C21_LateCallbackHarmless ==
  [][\A t \in BagToSet(pending) :
       CopiesIn(t, pending') < CopiesIn(t, pending)
         => \A k \in DOMAIN activeOscillators :
              voices[activeOscillators[k]].bus > voices[t.voice].bus
                => /\ k \in DOMAIN activeOscillators'
                   /\ activeOscillators'[k] = activeOscillators[k]
                   /\ voices'[activeOscillators[k]] = voices[activeOscillators[k]]]_vars

\* The resources behind the object of a live shape or fragment.
liveResources ==
  UNION {shapeDisposals(shapeObject(shapes[i])) : i \in 1..Len(shapes)}
    \cup UNION {textDisposals(textObject(fragments[i])) : i \in 1..Len(fragments)}

\* C22: an animation frame of the mounted Visualizer reads no object whose
\* material, texture or geometry has been disposed, and a commit disposes no
\* resource that stands behind an entity of the live collections.
C22_NoReadAfterDispose ==
  [][/\ (lastOp'.op = "sceneFrame" /\ stateRef.mounted)
          => sceneReads \cap stateRef.disposed = {}
     /\ lastOp'.op = "sceneSync"
          => (stateRef'.disposed \ stateRef.disposed) \cap liveResources = {}]_vars

Abs(x) == IF x < 0 THEN 0 - x ELSE x

\* C23: a decoded payload has one frame per two payload bytes, frame i being
\* the i-th byte pair read as a little-endian signed 16-bit number over
\* 32768; and when the payload encodes samples, there is one frame per
\* sample and each frame is within one 16-bit step of its sample.
C23_PcmRoundTrip ==
  pcm.stage = "decoded"
    => LET bytes == atob(pcm.data) IN
       /\ 2 * Len(pcm.buffer) = Len(bytes)
       /\ \A i \in 1..Len(pcm.buffer) :
            /\ pcm.buffer[i] \in (0 - 32768)..32767
            /\ (pcm.buffer[i] - (bytes[2 * i - 1] + 256 * bytes[2 * i])) % 65536 = 0
       /\ pcm.samples # << >>
            => /\ Len(pcm.buffer) = Len(pcm.samples)
               /\ \A i \in 1..Len(pcm.samples) :
                    Abs(pcm.buffer[i] * SubSteps - pcm.samples[i]) <= SubSteps

\* A decoded payload of three samples: -1.0, a value between two steps and
\* 1.0, which the 16-bit range cannot hold.
C23_Witness ==
  /\ pcm.stage = "decoded"
  /\ pcm.samples = << 0 - FullScale, 2, FullScale >>
  /\ pcm.buffer = << 0 - 32768, 1, 32767 >>
  /\ Len(pcm.data) = 8

\* C24: while the application is started and no beat interval is armed (the
\* state the STOP button leaves), only handleStart or handleHyper arm one:
\* no tempo nudge and no other change of the settings, with the settings
\* effect it triggers, starts the beat again.
C24_StoppedStaysStopped ==
  [][(isStarted /\ intervals = {} /\ intervals' # {})
       => lastOp'.op \in {"handleStart", "handleHyper"}]_vars

\* The gains of the three buses of the output graph, in hundredths.
Mix(g) == << g.synth, g.beat, g.tts >>

\* C25: the STOP and HYPER buttons, which both run clearAllNotes, leave the
\* mix as setVolumes last set it: the synth, beat and voice gains after the
\* step equal the gains before it.
C25_ClearKeepsMix ==
  [][lastOp'.op \in {"handleStopAll", "handleHyper"} => Mix(graph') = Mix(graph)]_vars

\* The voices of key k whose release is running: stopNote has started the
\* release, the nodes still sound and the voice's own teardown has not fired.
Releasing(k) ==
  {v \in 1..Len(voices) :
     /\ voices[v].key = k
     /\ voices[v].env = "release"
     /\ voices[v].running
     /\ BagIn([key |-> k, voice |-> v], pending)}

\* C26: while a voice of key k is in its release, playNote(k) is a no-op: it
\* builds no voice and leaves the registry and the scheduled teardowns alone.
C26_NoRetriggerDuringRelease ==
  [][\A k \in KeySet :
       (IsStep("playNote", k) /\ Releasing(k) # {})
         => /\ voices' = voices
            /\ activeOscillators' = activeOscillators
            /\ pending' = pending]_vars

\* C27: once the phrase load at startup has completed, with a response or
\* with an error, the phrase pool is non-empty.
C27_PoolNonEmptyAfterLoad ==
  poolRequest # "pending" => Len(philosophyPool) > 0

\* C28: clearAllNotes also stops the beat sequencer: right after it returns
\* no interval is armed and the engine holds no timer handle.
C28_ClearStopsBeats ==
  [][IsStep("clearAllNotes", "") => (intervals' = {} /\ beatTimer' = 0)]_vars

\* C29: the cap on fragments never removes an unexpired fragment: every
\* fragment that the insertion of a newly spawned fragment drops has already
\* reached its lifetime at that time.
C29_CapDropsOnlyExpired ==
  [][Len(spawns') > Len(spawns)
       => \A i \in 1..Len(fragments) :
            fragments[i].id \notin IdsOf(fragments')
              => now - fragments[i].createdAt >= fragments[i].lifeTime]_vars

\* Twelve fragments were spawned with no sweep in between: the twelfth
\* insertion found eleven and dropped the first, 44011 ms after its creation.
C29_Witness ==
  /\ Len(spawns) = 12
  /\ Len(fragments) = FragmentTail + 1
  /\ fragments[1].createdAt = spawns[2].at
  /\ fragments[1].lifeTime = 39999
  /\ fragments[FragmentTail + 1].createdAt = now
  /\ \A w \in swept : w[1] # "text"

\* C30: after a commit of the Visualizer has run the sync effects, for every
\* kind of entity the ids of the mesh map are exactly the ids of the live
\* collection, one mesh per entry: a mesh that was there stays the same
\* object and a new one carries the data of its entry.
C30_SyncMatchesCollection ==
  [][IsStep("render", "")
       => \A k \in Kinds :
            /\ MeshIds(k)' = IdsOf(Live(k))
            /\ Cardinality(MeshIds(k)') = Len(Live(k))
            /\ \A id \in MeshIds(k)' :
                 MeshMap(k)'[id] = IF id \in MeshIds(k) THEN MeshMap(k)[id]
                                   ELSE Entity(Live(k), id)]_vars

\* A commit that both removed and added: the flying character of the first
\* press was swept and has no mesh, the character of a later press has one,
\* and both shapes and a fragment have theirs.
C30_Witness ==
  /\ lastOp.op = "render"
  /\ Cardinality(DOMAIN meshes) = 2 /\ DOMAIN meshes = IdsOf(shapes)
  /\ Cardinality(DOMAIN charMeshes) = 1 /\ DOMAIN charMeshes = IdsOf(flyingChars)
  /\ Cardinality(DOMAIN textMeshes) = 1 /\ DOMAIN textMeshes = IdsOf(fragments)
  /\ \E x \in swept :
       x[1] = "char" /\ \E s \in DOMAIN meshes : PressOf(s) = PressOf(x[2])

====
